---- MODULE Spec2Model ----
(***************************************************************************)
(* The turn-based CV builder: the section handlers (app/handlers), the     *)
(* turn controller (app/services/workflow.py), the validation layer        *)
(* (app/services/validation.py), the session state (app/core/state.py)     *)
(* and the transport that creates a session's state, runs the graph once   *)
(* per message on the stored state and stores the result.  The transport   *)
(* of this controller (app/web/websocket.py) is not among the sources: it  *)
(* is modelled from the specification's description of a turn.             *)
(*                                                                         *)
(* app/main.py is the same builder as one file, with its own state class,  *)
(* handlers, controller and websocket transport, and without validation.   *)
(* Its definitions are prefixed main_ and run under MainSpec.              *)
(*                                                                         *)
(* A Python str is a sequence of one-character strings, so that strip()    *)
(* and lower() are computed, not assumed.  An Arabic letter is written by  *)
(* its name ("ar_teh"): it is a character that is neither whitespace nor   *)
(* an ASCII capital.  Dict keys, section names and the messages the        *)
(* program emits are TLA+ strings.                                         *)
(***************************************************************************)
EXTENDS Naturals, Sequences, FiniteSets, TLC

VARIABLES
    state,  \* the CVState persisted for the session (the store's value)
    turn,   \* what the last graph run did: its input, the section and data it ran on, its outcome
    call,   \* the last handler invocation: its arguments and what it returned
    ws      \* app/main.py: each websocket connection's open flag and local state

vars == <<state, turn, call, ws>>

\* Longest education / work_experience / skills list the model builds.
MaxList == 2

\* Python None of a str-typed optional that holds a key or a message.
None == "None"
\* Python None of user_input (a str, here a sequence of characters).
NoneInput == <<"<None>">>

----------------------------------------------------------------------------
\* str operations

WHITESPACE == {" ", "\t", "\n"}

UPPER == <<"A", "B", "C", "D", "E", "F", "G", "H", "I", "J", "K", "L", "M",
           "N", "O", "P", "Q", "R", "S", "T", "U", "V", "W", "X", "Y", "Z">>

LOWER == <<"a", "b", "c", "d", "e", "f", "g", "h", "i", "j", "k", "l", "m",
           "n", "o", "p", "q", "r", "s", "t", "u", "v", "w", "x", "y", "z">>

lower_char(c) ==
    IF \E i \in 1..Len(UPPER) : UPPER[i] = c
    THEN LOWER[CHOOSE i \in 1..Len(UPPER) : UPPER[i] = c]
    ELSE c

\* str.lower()
lower(s) == [i \in 1..Len(s) |-> lower_char(s[i])]

RECURSIVE lstrip(_)
lstrip(s) == IF s # <<>> /\ Head(s) \in WHITESPACE THEN lstrip(Tail(s)) ELSE s

RECURSIVE rstrip(_)
rstrip(s) ==
    IF s # <<>> /\ s[Len(s)] \in WHITESPACE
    THEN rstrip(SubSeq(s, 1, Len(s) - 1))
    ELSE s

\* str.strip()
strip(s) == rstrip(lstrip(s))

\* (user_input or "")
or_empty(user_input) == IF user_input = NoneInput THEN <<>> ELSE user_input

----------------------------------------------------------------------------
\* app/core/constants.py

PERSONAL_INFO_FIELDS == <<"name", "email", "phone", "address">>

LANGUAGES == {"ar", "en"}

KEYWORDS ==
    [ar |-> [done     |-> <<"ar_teh", "ar_meem">>,
             review   |-> <<"ar_meem", "ar_reh", "ar_alef", "ar_jeem", "ar_ain", "ar_teh_marbuta">>,
             generate |-> <<"ar_alef_hamza_below", "ar_noon", "ar_sheen", "ar_alef", "ar_hamza">>,
             edit     |-> <<"ar_teh", "ar_ain", "ar_dal", "ar_yeh", "ar_lam">>],
     en |-> [done     |-> <<"d", "o", "n", "e">>,
             review   |-> <<"r", "e", "v", "i", "e", "w">>,
             generate |-> <<"g", "e", "n", "e", "r", "a", "t", "e">>,
             edit     |-> <<"e", "d", "i", "t">>]]

\* PROMPTS[language]["personal_info"][field] and PROMPTS[language][section]:
\* one message per language and question.
PROMPT_SECTIONS == {"personal_info", "education", "work_experience", "skills", "finalize"}

FIELD_PROMPT(language, field) == "PROMPTS." \o language \o ".personal_info." \o field

SECTION_PROMPT(language, section) == "PROMPTS." \o language \o "." \o section

----------------------------------------------------------------------------
\* dict helpers

\* d.get(k, default)
Get(d, k, default) == IF k \in DOMAIN d THEN d[k] ELSE default

\* the dict d after d.update(u); also the graph's merge of a node's update
\* onto the state, key by key
Merge(d, u) == [k \in DOMAIN d \cup DOMAIN u |-> IF k \in DOMAIN u THEN u[k] ELSE d[k]]

\* {}
EmptyDict == [k \in {} |-> None]

Range(s) == {s[i] : i \in DOMAIN s}

\* list.index(x), 1-based
IndexOf(s, x) == CHOOSE i \in DOMAIN s : s[i] = x

----------------------------------------------------------------------------
\* app/handlers/personal_info.py

handle_personal_info_keeps_field(user_input, current_personal_info, current_field) ==
    IF current_field \in {None, ""}
    THEN [current_field |-> PERSONAL_INFO_FIELDS[1], current_section |-> "personal_info"]
    ELSE LET updated_personal_info ==
                 Merge(current_personal_info, current_field :> strip(or_empty(user_input)))
         IN  IF /\ current_field \in Range(PERSONAL_INFO_FIELDS)
                /\ IndexOf(PERSONAL_INFO_FIELDS, current_field) < Len(PERSONAL_INFO_FIELDS)
             THEN [personal_info |-> updated_personal_info,
                   current_field |->
                       PERSONAL_INFO_FIELDS[IndexOf(PERSONAL_INFO_FIELDS, current_field) + 1],
                   current_section |-> "personal_info"]
             ELSE [personal_info |-> updated_personal_info,
                   current_section |-> "education",
                   current_field |-> current_field]

handle_personal_info_untrimmed(user_input, current_personal_info, current_field) ==
    IF current_field \in {None, ""}
    THEN [current_field |-> PERSONAL_INFO_FIELDS[1], current_section |-> "personal_info"]
    ELSE LET updated_personal_info ==
                 Merge(current_personal_info, current_field :> or_empty(user_input))
         IN  IF /\ current_field \in Range(PERSONAL_INFO_FIELDS)
                /\ IndexOf(PERSONAL_INFO_FIELDS, current_field) < Len(PERSONAL_INFO_FIELDS)
             THEN [personal_info |-> updated_personal_info,
                   current_field |->
                       PERSONAL_INFO_FIELDS[IndexOf(PERSONAL_INFO_FIELDS, current_field) + 1],
                   current_section |-> "personal_info"]
             ELSE [personal_info |-> updated_personal_info,
                   current_section |-> "education",
                   current_field |-> None]

\* Stands in for handle_personal_info: without a current field the input is
\* taken as the value of the first field.
handle_personal_info_consumes_unprompted(user_input, current_personal_info, current_field) ==
    IF current_field \in {None, ""}
    THEN [personal_info |->
              Merge(current_personal_info,
                    PERSONAL_INFO_FIELDS[1] :> strip(or_empty(user_input))),
          current_field |-> PERSONAL_INFO_FIELDS[2],
          current_section |-> "personal_info"]
    ELSE LET updated_personal_info ==
                 Merge(current_personal_info, current_field :> strip(or_empty(user_input)))
         IN  IF /\ current_field \in Range(PERSONAL_INFO_FIELDS)
                /\ IndexOf(PERSONAL_INFO_FIELDS, current_field) < Len(PERSONAL_INFO_FIELDS)
             THEN [personal_info |-> updated_personal_info,
                   current_field |->
                       PERSONAL_INFO_FIELDS[IndexOf(PERSONAL_INFO_FIELDS, current_field) + 1],
                   current_section |-> "personal_info"]
             ELSE [personal_info |-> updated_personal_info,
                   current_section |-> "education",
                   current_field |-> None]

\* Returns the update map.  A current_field outside the registry is the
\* ValueError branch of list.index: it moves on to education.
handle_personal_info(user_input, current_personal_info, current_field) ==
    IF current_field \in {None, ""}
    THEN [current_field |-> PERSONAL_INFO_FIELDS[1], current_section |-> "personal_info"]
    ELSE LET updated_personal_info ==
                 Merge(current_personal_info, current_field :> strip(or_empty(user_input)))
         IN  IF /\ current_field \in Range(PERSONAL_INFO_FIELDS)
                /\ IndexOf(PERSONAL_INFO_FIELDS, current_field) < Len(PERSONAL_INFO_FIELDS)
             THEN [personal_info |-> updated_personal_info,
                   current_field |->
                       PERSONAL_INFO_FIELDS[IndexOf(PERSONAL_INFO_FIELDS, current_field) + 1],
                   current_section |-> "personal_info"]
             ELSE [personal_info |-> updated_personal_info,
                   current_section |-> "education",
                   current_field |-> None]

----------------------------------------------------------------------------
\* app/handlers/education.py, experience.py, skills.py
\*
\* A list handler's result is the pair of what it returns (ret) and what the
\* caller's list object holds when it returns (current_list): the handlers
\* append to a copy, so the caller's list is as it was.

REPROMPT_DETAILS == "Please provide details or type 'done'."

REPROMPT_SKILL == "Please provide a skill or type 'done'."

handle_list_section_in_place(user_input, current_list, list_key, next_section, language) ==
    LET input_strip == strip(user_input)
        input_lower == lower(input_strip)
        done_keyword == lower(KEYWORDS[language].done)
    IN  IF input_lower = done_keyword
        THEN [ret |-> [current_section |-> next_section, current_field |-> None],
              current_list |-> current_list]
        ELSE IF input_strip = <<>>
        THEN [ret |-> [current_section |-> list_key, chatbot_response |-> REPROMPT_DETAILS],
              current_list |-> current_list]
        ELSE LET updated_list == Append(current_list, [details |-> input_strip])
             IN  [ret |-> (list_key :> updated_list)
                          @@ [current_section |-> list_key, current_field |-> None],
                  current_list |-> updated_list]

handle_list_section_any_language(user_input, current_list, list_key, next_section, language) ==
    LET input_strip == strip(user_input)
        input_lower == lower(input_strip)
    IN  IF \E l \in LANGUAGES : input_lower = lower(KEYWORDS[l].done)
        THEN [ret |-> [current_section |-> next_section, current_field |-> None],
              current_list |-> current_list]
        ELSE IF input_strip = <<>>
        THEN [ret |-> [current_section |-> list_key, chatbot_response |-> REPROMPT_DETAILS],
              current_list |-> current_list]
        ELSE LET updated_list == Append(current_list, [details |-> input_strip])
             IN  [ret |-> (list_key :> updated_list)
                          @@ [current_section |-> list_key, current_field |-> None],
                  current_list |-> current_list]

handle_list_section_append_on_empty(user_input, current_list, list_key, next_section, language) ==
    LET input_strip == strip(user_input)
        input_lower == lower(input_strip)
        done_keyword == lower(KEYWORDS[language].done)
    IN  IF input_lower = done_keyword
        THEN [ret |-> [current_section |-> next_section, current_field |-> None],
              current_list |-> current_list]
        ELSE LET updated_list == Append(current_list, [details |-> input_strip])
             IN  [ret |-> (list_key :> updated_list)
                          @@ [current_section |-> list_key, current_field |-> None],
                  current_list |-> current_list]

handle_list_section_done_appends(user_input, current_list, list_key, next_section, language) ==
    LET input_strip == strip(user_input)
        input_lower == lower(input_strip)
        done_keyword == lower(KEYWORDS[language].done)
        updated_list == Append(current_list, [details |-> input_strip])
    IN  IF input_lower = done_keyword
        THEN [ret |-> (list_key :> updated_list)
                      @@ [current_section |-> next_section, current_field |-> None],
              current_list |-> current_list]
        ELSE IF input_strip = <<>>
        THEN [ret |-> [current_section |-> list_key, chatbot_response |-> REPROMPT_DETAILS],
              current_list |-> current_list]
        ELSE [ret |-> (list_key :> updated_list)
                      @@ [current_section |-> list_key, current_field |-> None],
              current_list |-> current_list]

handle_list_section(user_input, current_list, list_key, next_section, language) ==
    LET input_strip == strip(user_input)
        input_lower == lower(input_strip)
        done_keyword == lower(KEYWORDS[language].done)
    IN  IF input_lower = done_keyword
        THEN [ret |-> [current_section |-> next_section, current_field |-> None],
              current_list |-> current_list]
        ELSE IF input_strip = <<>>
        THEN [ret |-> [current_section |-> list_key, chatbot_response |-> REPROMPT_DETAILS],
              current_list |-> current_list]
        ELSE LET updated_list == Append(current_list, [details |-> input_strip])
             IN  [ret |-> (list_key :> updated_list)
                          @@ [current_section |-> list_key, current_field |-> None],
                  current_list |-> current_list]

handle_education_to_work_experience(user_input, current_list, language) ==
    handle_list_section(strip(or_empty(user_input)), current_list,
                        "education", "work_experience", language)

\* Stands in for handle_education: the entry is filed under work_experience.
handle_education_files_as_experience(user_input, current_list, language) ==
    handle_list_section(strip(or_empty(user_input)), current_list,
                        "work_experience", "skills", language)

handle_education(user_input, current_list, language) ==
    handle_list_section(strip(or_empty(user_input)), current_list,
                        "education", "skills", language)

handle_experience(user_input, current_list, language) ==
    handle_list_section(strip(or_empty(user_input)), current_list,
                        "work_experience", "finalize", language)

\* handle_skills calls user_input.strip() on its argument as it is: None
\* raises AttributeError.
\* Stands in for handle_skills: the skill is stored as typed, with the
\* whitespace around it.
handle_skills_untrimmed(user_input, current_list, language) ==
    IF user_input = NoneInput
    THEN [raise |-> "AttributeError"]
    ELSE LET input_strip == strip(user_input)
             input_lower == lower(input_strip)
             done_keyword == lower(KEYWORDS[language].done)
         IN  IF input_lower = done_keyword
             THEN [ret |-> [current_section |-> "finalize", current_field |-> None],
                   current_list |-> current_list]
             ELSE IF input_strip = <<>>
             THEN [ret |-> [current_section |-> "skills",
                            chatbot_response |-> REPROMPT_SKILL],
                   current_list |-> current_list]
             ELSE LET updated_list == Append(current_list, user_input)
                  IN  [ret |-> [skills |-> updated_list,
                                current_section |-> "skills",
                                current_field |-> None],
                       current_list |-> current_list]

handle_skills(user_input, current_list, language) ==
    IF user_input = NoneInput
    THEN [raise |-> "AttributeError"]
    ELSE LET input_strip == strip(user_input)
             input_lower == lower(input_strip)
             done_keyword == lower(KEYWORDS[language].done)
         IN  IF input_lower = done_keyword
             THEN [ret |-> [current_section |-> "finalize", current_field |-> None],
                   current_list |-> current_list]
             ELSE IF input_strip = <<>>
             THEN [ret |-> [current_section |-> "skills",
                            chatbot_response |-> REPROMPT_SKILL],
                   current_list |-> current_list]
             ELSE LET updated_list == Append(current_list, input_strip)
                  IN  [ret |-> [skills |-> updated_list,
                                current_section |-> "skills",
                                current_field |-> None],
                       current_list |-> current_list]

----------------------------------------------------------------------------
\* app/handlers/finalize.py

CV_GENERATED(language) == "cv_output." \o language \o ": generated, with the PDF link"

CV_ERROR(language) == "cv_output." \o language \o ": an error occurred while generating the CV"

USAGE_HINT(language) == "usage hint." \o language \o ": type review, generate or edit"

\* Stands in for handle_generate: the success path leaves the output of
\* an earlier attempt and does not mark the state complete.
handle_generate_without_output(cv_state, render) ==
    IF render = "ok"
    THEN [cv_output |-> cv_state.cv_output,
          is_complete |-> FALSE,
          chatbot_response |-> None,
          user_input |-> NoneInput,
          current_section |-> "completed",
          current_field |-> None]
    ELSE [cv_output |-> CV_ERROR(cv_state.language),
          is_complete |-> FALSE,
          current_section |-> "finalize",
          current_field |-> None]

\* Stands in for handle_generate: a failed rendering ends the session like
\* a successful one.
handle_generate_failure_completes(cv_state, render) ==
    [cv_output |-> IF render = "ok" THEN CV_GENERATED(cv_state.language)
                   ELSE CV_ERROR(cv_state.language),
     is_complete |-> TRUE,
     chatbot_response |-> None,
     user_input |-> NoneInput,
     current_section |-> "completed",
     current_field |-> None]

\* render is what generate_cv_pdf / format_cv_text do on this call: "ok", or
\* "raise" (the renderer fails, e.g. the static directory cannot be written).
handle_generate(cv_state, render) ==
    IF render = "ok"
    THEN [cv_output |-> CV_GENERATED(cv_state.language),
          is_complete |-> TRUE,
          chatbot_response |-> None,
          user_input |-> NoneInput,
          current_section |-> "completed",
          current_field |-> None]
    ELSE [cv_output |-> CV_ERROR(cv_state.language),
          is_complete |-> FALSE,
          current_section |-> "finalize",
          current_field |-> None]

\* Stands in for handle_finalize: 'edit' starts over with empty sections.
handle_finalize_edit_clears(user_input, cv_state, language, render) ==
    LET input_lower == lower(strip(or_empty(user_input)))
        kw == KEYWORDS[language]
    IN  IF input_lower = lower(kw.generate)
        THEN handle_generate(cv_state, render)
        ELSE IF input_lower = lower(kw.review)
        THEN [current_section |-> "review", current_field |-> None]
        ELSE IF input_lower = lower(kw.edit)
        THEN [current_section |-> "personal_info",
              current_field |-> PERSONAL_INFO_FIELDS[1],
              personal_info |-> EmptyDict,
              education |-> <<>>,
              work_experience |-> <<>>,
              skills |-> <<>>,
              is_complete |-> FALSE,
              cv_output |-> None]
        ELSE [chatbot_response |-> USAGE_HINT(language),
              current_section |-> "finalize",
              current_field |-> None]

\* Stands in for handle_finalize: the usage hint also drops the output of
\* an earlier generation attempt, as 'edit' does.
handle_finalize_hint_drops_output(user_input, cv_state, language, render) ==
    LET input_lower == lower(strip(or_empty(user_input)))
        kw == KEYWORDS[language]
    IN  IF input_lower = lower(kw.generate)
        THEN handle_generate(cv_state, render)
        ELSE IF input_lower = lower(kw.review)
        THEN [current_section |-> "review", current_field |-> None]
        ELSE IF input_lower = lower(kw.edit)
        THEN [current_section |-> "personal_info",
              current_field |-> PERSONAL_INFO_FIELDS[1],
              is_complete |-> FALSE,
              cv_output |-> None]
        ELSE [chatbot_response |-> USAGE_HINT(language),
              current_section |-> "finalize",
              current_field |-> None,
              is_complete |-> FALSE,
              cv_output |-> None]

handle_finalize(user_input, cv_state, language, render) ==
    LET input_lower == lower(strip(or_empty(user_input)))
        kw == KEYWORDS[language]
    IN  IF input_lower = lower(kw.generate)
        THEN handle_generate(cv_state, render)
        ELSE IF input_lower = lower(kw.review)
        THEN [current_section |-> "review", current_field |-> None]
        ELSE IF input_lower = lower(kw.edit)
        THEN [current_section |-> "personal_info",
              current_field |-> PERSONAL_INFO_FIELDS[1],
              is_complete |-> FALSE,
              cv_output |-> None]
        ELSE [chatbot_response |-> USAGE_HINT(language),
              current_section |-> "finalize",
              current_field |-> None]

----------------------------------------------------------------------------
\* app/services/validation.py

\* the keys of DataValidator._validation_rules
RULE_SECTIONS == {"personal_info", "education", "work_experience", "skills", "finalize"}

REQUIRED_FIELDS(section) == IF section = "personal_info" THEN {"name", "email", "phone"} ELSE {}

FORMAT_FIELDS(section) == IF section = "personal_info" THEN {"email", "phone"} ELSE {}

SECTION_REQUIRED(section) == section # "finalize"

DIGITS == {"0", "1", "2", "3", "4", "5", "6", "7", "8", "9"}

IsUpper(c) == c \in Range(UPPER)

IsLower(c) == c \in Range(LOWER)

AllIn(s, i, j, class) == \A k \in i..j : s[k] \in class

\* [A-Z][a-z]+ on s[i..j]
IsNameWord(s, i, j) == j > i /\ IsUpper(s[i]) /\ \A k \in (i + 1)..j : IsLower(s[k])

\* ^[A-Z][a-z]+(\s[A-Z][a-z]+)+$ : two or more capitalised words, one
\* whitespace character between neighbours
MatchesName(s) ==
    LET gaps == {k \in 1..Len(s) : s[k] \in WHITESPACE}
        starts == {1} \cup {k + 1 : k \in gaps}
        EndOf(i) == IF \E k \in gaps : k > i
                    THEN (CHOOSE k \in gaps : k > i /\ \A m \in gaps : m > i => k <= m) - 1
                    ELSE Len(s)
    IN  /\ gaps # {}
        /\ \A i \in starts : IsNameWord(s, i, EndOf(i))

\* ^[a-zA-Z0-9._%+-]+@[a-zA-Z0-9.-]+\.[a-zA-Z]{2,}$
MatchesEmail(s) ==
    LET alnum == Range(UPPER) \cup Range(LOWER) \cup DIGITS
    IN  \E at \in 1..Len(s), dot \in 1..Len(s) :
            /\ s[at] = "@" /\ s[dot] = "."
            /\ at > 1 /\ dot > at + 1 /\ Len(s) >= dot + 2
            /\ AllIn(s, 1, at - 1, alnum \cup {".", "_", "%", "+", "-"})
            /\ AllIn(s, at + 1, dot - 1, alnum \cup {".", "-"})
            /\ AllIn(s, dot + 1, Len(s), Range(UPPER) \cup Range(LOWER))

\* ^\+?[\d\s-]{8,}$
MatchesPhone(s) ==
    LET body == IF s # <<>> /\ s[1] = "+" THEN Tail(s) ELSE s
    IN  Len(body) >= 8 /\ AllIn(body, 1, Len(body), DIGITS \cup WHITESPACE \cup {"-"})

\* _validate_format of one personal-info field
_validate_format(field, value) ==
    CASE field = "name" -> MatchesName(value)
      [] field = "email" -> MatchesEmail(value)
      [] field = "phone" -> MatchesPhone(value)
      [] OTHER -> FALSE

\* The dict it is given is the personal_info mapping, and the field it
\* validates is that mapping's own "current_field" entry.
validate_personal_info(data) ==
    IF "current_field" \notin DOMAIN data \/ data["current_field"] = <<>>
    THEN [is_valid |-> FALSE, message |-> "Current field not found in data."]
    ELSE LET current_field == data["current_field"]
             Checked(field, text) ==
                 IF field \notin DOMAIN data
                 THEN [raise |-> "KeyError"]
                 ELSE IF _validate_format(field, data[field])
                 THEN [is_valid |-> TRUE, message |-> ""]
                 ELSE [is_valid |-> FALSE, message |-> text]
         IN  CASE current_field = <<"n", "a", "m", "e">> ->
                      Checked("name", "Invalid name format - Use proper capitalization")
               [] current_field = <<"e", "m", "a", "i", "l">> ->
                      Checked("email", "Invalid email format")
               [] current_field = <<"p", "h", "o", "n", "e">> ->
                      Checked("phone", "Invalid phone format - Include country code")
               [] OTHER -> [is_valid |-> TRUE, message |-> ""]

\* data is a dict here (the caller passes the state's __dict__); a dict
\* that is not empty is checked field by field against the section's rule.
_pre_validate(section, data) ==
    IF section \notin RULE_SECTIONS
    THEN "Configuration error: Unknown validation section"
    ELSE IF DOMAIN data = {}
    THEN IF SECTION_REQUIRED(section) THEN "Missing required section: " \o section ELSE None
    ELSE LET missing == {f \in REQUIRED_FIELDS(section) :
                             f \notin DOMAIN data \/ data[f] = <<>>}
             format_errors == {f \in FORMAT_FIELDS(section) :
                                   /\ f \in DOMAIN data
                                   /\ data[f] # <<>>
                                   /\ ~_validate_format(f, data[f])}
         IN  IF missing = {} /\ format_errors = {}
             THEN None
             ELSE "Missing required fields / invalid format"

JUDGE_VALID == "VALID"

JUDGE_INVALID == "INVALID: the judge's reason, issues and suggestions"

JUDGE_ERROR == "Validation failed due to an error: the judge call raised"

\* stop_after_attempt(3)
MAX_ATTEMPTS == 3

\* Stands in for the body of validate_input: a failed structural check is
\* reported, but only after the judge has been asked as well.
validate_input_body_judges_anyway(section, data, strict, judge) ==
    IF section \notin RULE_SECTIONS
    THEN [is_valid |-> FALSE, judged |-> FALSE,
          message |-> "Validation rule not found for section: " \o section]
    ELSE LET pre_validation_error == _pre_validate(section, data)
         IN  IF pre_validation_error # None /\ strict
             THEN [is_valid |-> FALSE, judged |-> TRUE,
                   message |-> "Pre-validation Error: " \o pre_validation_error]
             ELSE IF DOMAIN data = {} /\ ~SECTION_REQUIRED(section)
             THEN [is_valid |-> TRUE, judged |-> FALSE,
                   message |-> "VALID: Optional section is empty."]
             ELSE LET warning == IF pre_validation_error # None
                                 THEN "Pre-validation Warning: " \o pre_validation_error
                                      \o " --- LLM Validation: "
                                 ELSE ""
                  IN  CASE judge = "VALID" ->
                               [is_valid |-> TRUE, judged |-> TRUE,
                                message |-> warning \o JUDGE_VALID]
                        [] judge = "INVALID" ->
                               [is_valid |-> FALSE, judged |-> TRUE,
                                message |-> warning \o JUDGE_INVALID]
                        [] OTHER ->
                               [is_valid |-> FALSE, judged |-> TRUE,
                                message |-> JUDGE_ERROR]

\* The body of validate_input, one attempt.  judge is what the external
\* judge does on this call: it answers "VALID" or "INVALID", or the call
\* fails ("ERROR"); the failure is caught by the body's own except and
\* returned as a failed validation.  judged tells whether the judge was
\* asked.
validate_input_body(section, data, strict, judge) ==
    IF section \notin RULE_SECTIONS
    THEN [is_valid |-> FALSE, judged |-> FALSE,
          message |-> "Validation rule not found for section: " \o section]
    ELSE LET pre_validation_error == _pre_validate(section, data)
         IN  IF pre_validation_error # None /\ strict
             THEN [is_valid |-> FALSE, judged |-> FALSE,
                   message |-> "Pre-validation Error: " \o pre_validation_error]
             ELSE IF DOMAIN data = {} /\ ~SECTION_REQUIRED(section)
             THEN [is_valid |-> TRUE, judged |-> FALSE,
                   message |-> "VALID: Optional section is empty."]
             ELSE LET warning == IF pre_validation_error # None
                                 THEN "Pre-validation Warning: " \o pre_validation_error
                                      \o " --- LLM Validation: "
                                 ELSE ""
                  IN  CASE judge = "VALID" ->
                               [is_valid |-> TRUE, judged |-> TRUE,
                                message |-> warning \o JUDGE_VALID]
                        [] judge = "INVALID" ->
                               [is_valid |-> FALSE, judged |-> TRUE,
                                message |-> warning \o JUDGE_INVALID]
                        [] OTHER ->
                               [is_valid |-> FALSE, judged |-> TRUE,
                                message |-> JUDGE_ERROR]

\* @retry on validate_input: the body is called again while it raises, up
\* to MAX_ATTEMPTS calls; after the last one retry_error_callback's tuple is
\* returned.  judges[n] is what the judge does on the n-th call; the result
\* carries the number of calls of the body and of the judge.
RECURSIVE retry(_, _, _, _, _, _)
retry(section, data, strict, judges, attempt_number, judge_calls) ==
    LET r == validate_input_body(section, data, strict, judges[attempt_number])
    IN  IF "raise" \notin DOMAIN r
        THEN [is_valid |-> r.is_valid, message |-> r.message,
              attempts |-> attempt_number,
              judge_calls |-> judge_calls + (IF r.judged THEN 1 ELSE 0)]
        ELSE IF attempt_number >= MAX_ATTEMPTS
        THEN [is_valid |-> FALSE,
              message |-> "Validation failed after " \o ToString(attempt_number)
                          \o " attempts",
              attempts |-> attempt_number, judge_calls |-> judge_calls + 1]
        ELSE retry(section, data, strict, judges, attempt_number + 1, judge_calls + 1)

\* validate_input as its callers see it, the judge doing the same on every
\* call
validate_input(section, data, strict, judge) ==
    LET r == retry(section, data, strict, [n \in 1..MAX_ATTEMPTS |-> judge], 1, 0)
    IN  [is_valid |-> r.is_valid, message |-> r.message]

\* validate_section never passes strict on: validate_input runs with its
\* default, strict = True.
validate_section(section, data, judge) ==
    IF section = "personal_info"
    THEN validate_personal_info(Get(data, "personal_info", EmptyDict))
    ELSE validate_input(section, data, TRUE, judge)

validate_cv(section, data, strict, judge) == validate_section(section, data, judge)

----------------------------------------------------------------------------
\* app/core/state.py

\* CVState.validate_section: the values a CVState can be built with
VALID_SECTIONS ==
    {"personal_info", "education", "work_experience", "skills", "finalize", "review"}

\* CVState(language = language): every other field at its default
CVState(language) ==
    [language |-> language,
     personal_info |-> EmptyDict,
     education |-> <<>>,
     work_experience |-> <<>>,
     skills |-> <<>>,
     validation_errors |-> EmptyDict,
     current_section |-> "personal_info",
     current_field |-> None,
     user_input |-> NoneInput,
     chatbot_response |-> None,
     cv_output |-> None,
     is_complete |-> FALSE]

----------------------------------------------------------------------------
\* app/services/workflow.py

GENERIC_ERROR == "An error occurred. Please try again."

REVISE(message, section) ==
    "Please revise your input: " \o message \o " Current section: " \o section

\* the keys of process_input's handlers dict
HANDLER_SECTIONS == {"personal_info", "education", "work_experience", "skills", "finalize"}

NoCall == [fn |-> "none"]

\* The handler process_input dispatches for the state's section, as the
\* record of the call: its arguments, what it returned (ret) and the
\* caller's list after it (arg_after).
Dispatch(cv_state, render) ==
    LET section == cv_state.current_section
        args == [user_input |-> cv_state.user_input, language |-> cv_state.language]
    IN  CASE section = "personal_info" ->
                 Merge(args,
                       [fn |-> "handle_personal_info",
                        arg |-> cv_state.personal_info,
                        current_field |-> cv_state.current_field,
                        ret |-> handle_personal_info(cv_state.user_input,
                                                     cv_state.personal_info,
                                                     cv_state.current_field),
                        arg_after |-> cv_state.personal_info])
          [] section = "education" ->
                 LET h == handle_education(cv_state.user_input, cv_state.education,
                                           cv_state.language)
                 IN  Merge(args, [fn |-> "handle_education", arg |-> cv_state.education,
                                  ret |-> h.ret, arg_after |-> h.current_list])
          [] section = "work_experience" ->
                 LET h == handle_experience(cv_state.user_input, cv_state.work_experience,
                                            cv_state.language)
                 IN  Merge(args, [fn |-> "handle_experience",
                                  arg |-> cv_state.work_experience,
                                  ret |-> h.ret, arg_after |-> h.current_list])
          [] section = "skills" ->
                 LET h == handle_skills(cv_state.user_input, cv_state.skills,
                                        cv_state.language)
                 IN  Merge(args, [fn |-> "handle_skills", arg |-> cv_state.skills,
                                  ret |-> h.ret, arg_after |-> h.current_list])
          [] section = "finalize" ->
                 Merge(args,
                       [fn |-> "handle_finalize",
                        arg |-> cv_state,
                        render |-> render,
                        ret |-> handle_finalize(cv_state.user_input, cv_state,
                                                cv_state.language, render),
                        arg_after |-> cv_state])

\* What the update does to validation_errors when validation fails.
FailedValidationErrors(cv_state, message) == cv_state.current_section :> message

\* What the update does to validation_errors when nothing failed.
ClearedValidationErrors(cv_state) ==
    [k \in DOMAIN cv_state.validation_errors \ {cv_state.current_section} |->
        cv_state.validation_errors[k]]

\* The update a failed validation returns: the handler's update, with
\* the message, the cleared input and the error entry written over it.
RejectedUpdates(updates, cv_state, message) ==
    Merge(updates,
          [chatbot_response |-> REVISE(message, cv_state.current_section),
           user_input |-> NoneInput,
           validation_errors |-> FailedValidationErrors(cv_state, message)])

\* Stands in for process_input: the except branch adds the error to the
\* handler's update instead of returning the error alone.
process_input_except_keeps_updates(cv_state, env) ==
    IF cv_state.user_input = NoneInput \/ strip(cv_state.user_input) = <<>>
    THEN [outcome |-> "empty",
          updates |-> [user_input |-> NoneInput, chatbot_response |-> None],
          call |-> NoCall]
    ELSE IF cv_state.current_section \notin HANDLER_SECTIONS
    THEN [outcome |-> "no_handler",
          updates |-> [chatbot_response |-> GENERIC_ERROR,
                       current_section |-> "personal_info"],
          call |-> NoCall]
    ELSE LET h == Dispatch(cv_state, env.render)
             updates == h.ret
             raised == [outcome |-> "exception",
                        updates |-> Merge(updates,
                                          [chatbot_response |-> GENERIC_ERROR,
                                           current_section |-> cv_state.current_section]),
                        call |-> h]
             strict_mode == cv_state.current_section \in {"personal_info", "education"}
             changes == cv_state.current_section
                            # Get(updates, "current_section", cv_state.current_section)
             v == IF changes
                  THEN validate_cv(cv_state.current_section, cv_state, strict_mode, env.judge)
                  ELSE [is_valid |-> TRUE, message |-> None]
         IN  IF env.validator = "raise" \/ "raise" \in DOMAIN v
             THEN raised
             ELSE IF ~v.is_valid
             THEN [outcome |-> "invalid",
                   updates |-> RejectedUpdates(updates, cv_state, v.message),
                   call |-> h]
             ELSE [outcome |-> "accepted",
                   updates |-> Merge(updates,
                                     [validation_errors |-> ClearedValidationErrors(cv_state),
                                      user_input |-> NoneInput]),
                   call |-> h]

\* env is what the collaborators do during this run: whether DataValidator()
\* can be constructed (it raises without its configuration), the judge's
\* answer, and whether the renderer succeeds.
\* The result: the path taken (outcome), the update the node returns, and
\* the handler call made.
process_input(cv_state, env) ==
    IF cv_state.user_input = NoneInput \/ strip(cv_state.user_input) = <<>>
    THEN [outcome |-> "empty",
          updates |-> [user_input |-> NoneInput, chatbot_response |-> None],
          call |-> NoCall]
    ELSE IF cv_state.current_section \notin HANDLER_SECTIONS
    THEN [outcome |-> "no_handler",
          updates |-> [chatbot_response |-> GENERIC_ERROR,
                       current_section |-> "personal_info"],
          call |-> NoCall]
    ELSE LET h == Dispatch(cv_state, env.render)
             updates == h.ret
             raised == [outcome |-> "exception",
                        updates |-> [chatbot_response |-> GENERIC_ERROR,
                                     current_section |-> cv_state.current_section],
                        call |-> h]
             strict_mode == cv_state.current_section \in {"personal_info", "education"}
             changes == cv_state.current_section
                            # Get(updates, "current_section", cv_state.current_section)
             v == IF changes
                  THEN validate_cv(cv_state.current_section, cv_state, strict_mode, env.judge)
                  ELSE [is_valid |-> TRUE, message |-> None]
         IN  IF env.validator = "raise" \/ "raise" \in DOMAIN v
             THEN raised
             ELSE IF ~v.is_valid
             THEN [outcome |-> "invalid",
                   updates |-> RejectedUpdates(updates, cv_state, v.message),
                   call |-> h]
             ELSE [outcome |-> "accepted",
                   updates |-> Merge(updates,
                                     [validation_errors |-> ClearedValidationErrors(cv_state),
                                      user_input |-> NoneInput]),
                   call |-> h]

REVIEW_TEXT(language) == "Reviewing details: snapshot. " \o SECTION_PROMPT(language, "finalize")

generate_prompt(cv_state) ==
    IF cv_state.chatbot_response \notin {None, ""}
    THEN [chatbot_response |-> cv_state.chatbot_response]
    ELSE IF cv_state.is_complete /\ cv_state.cv_output \notin {None, ""}
    THEN [chatbot_response |-> cv_state.cv_output]
    ELSE LET language == cv_state.language
             current_section == cv_state.current_section
         IN  IF current_section = "review"
             THEN [chatbot_response |-> REVIEW_TEXT(language),
                   current_section |-> "finalize",
                   current_field |-> None,
                   user_input |-> NoneInput]
             ELSE IF current_section = "personal_info"
             THEN IF cv_state.current_field \in Range(PERSONAL_INFO_FIELDS)
                  THEN [chatbot_response |-> FIELD_PROMPT(language, cv_state.current_field),
                        user_input |-> NoneInput]
                  ELSE [chatbot_response |-> FIELD_PROMPT(language, PERSONAL_INFO_FIELDS[1]),
                        current_field |-> PERSONAL_INFO_FIELDS[1],
                        user_input |-> NoneInput]
             ELSE IF current_section \in PROMPT_SECTIONS
             THEN [chatbot_response |-> SECTION_PROMPT(language, current_section),
                   user_input |-> NoneInput]
             ELSE [raise |-> "ValueError"]

\* a run that reaches no collaborator
NoEnv == [validator |-> "ok", judge |-> "VALID", render |-> "ok"]

\* What the collaborators may do during the run of this state: the
\* validator is constructed when a handler is dispatched, the renderer is
\* called when the finalize handler generates, and the judge is asked when
\* a section other than personal_info is left.
Envs(cv_state) ==
    LET section == cv_state.current_section
        leaves(render) ==
            Get(Dispatch(cv_state, render).ret, "current_section", section) # section
        renders == IF /\ section = "finalize"
                      /\ Dispatch(cv_state, "ok").ret # Dispatch(cv_state, "raise").ret
                   THEN {"ok", "raise"} ELSE {"ok"}
    IN  IF \/ cv_state.user_input = NoneInput
           \/ strip(cv_state.user_input) = <<>>
           \/ section \notin HANDLER_SECTIONS
        THEN {NoEnv}
        ELSE {[validator |-> "raise", judge |-> "VALID", render |-> "ok"]}
             \cup UNION {[validator : {"ok"},
                          judge : IF section # "personal_info" /\ leaves(render)
                                  THEN {"VALID", "INVALID", "ERROR"} ELSE {"VALID"},
                          render : {render}] : render \in renders}

\* The compiled graph: process_input, then END if the state is complete,
\* generate_prompt otherwise.  The state each node and the branch receive
\* is built as a CVState, whose validator refuses a section outside
\* VALID_SECTIONS; an exception ends the run without a result.
\* processed is the graph's state after the process_input node.
\* p is what process_input returns, s1 the state with its update merged,
\* g what generate_prompt returns on s1; each is computed once.
GraphInvoke(cv_state, env) ==
    CHOOSE r \in
        {IF s1.current_section \notin VALID_SECTIONS
         THEN [raise |-> "ValidationError", outcome |-> p.outcome, call |-> p.call,
               processed |-> s1]
         ELSE IF s1.is_complete
         THEN [result |-> s1, outcome |-> p.outcome, call |-> p.call, processed |-> s1]
         ELSE IF "raise" \in DOMAIN g
         THEN [raise |-> g.raise, outcome |-> p.outcome, call |-> p.call,
               processed |-> s1]
         ELSE [result |-> Merge(s1, g), outcome |-> p.outcome, call |-> p.call,
               processed |-> s1] :
             <<p, s1, g>> \in
                 {<<p0, s0, generate_prompt(s0)>> :
                      <<p0, s0>> \in
                          {<<p0, Merge(cv_state, p0.updates)>> :
                               p0 \in {process_input(cv_state, env)}}}} : TRUE

----------------------------------------------------------------------------
\* The inputs of the model

WS_ONLY == <<" ", "\t">>

ENTRY == <<" ", "x", " ">>

OTHER_ENTRY == <<"y">>

DONE_EN == KEYWORDS["en"].done

DONE_EN_MIXED == <<" ", "D", "o", "n", "e", "\n">>

DONE_AR == KEYWORDS["ar"].done

DONE_AR_SPACED == <<" ">> \o KEYWORDS["ar"].done \o <<" ">>

REVIEW_EN_MIXED == <<"R", "e", "v", "i", "e", "w", " ">>

FINALIZE_KEYWORDS ==
    {KEYWORDS[l][k] : l \in LANGUAGES, k \in {"review", "generate", "edit"}}

\* what a user may send while the session is in this section: an entry,
\* the session language's keywords, and inputs without text
MessageInputs(section, language) ==
    CASE section = "personal_info" -> {ENTRY, WS_ONLY}
      [] section \in {"education", "work_experience", "skills"} ->
             {ENTRY, KEYWORDS[language].done, WS_ONLY, <<>>}
      [] section = "finalize" ->
             {KEYWORDS[language][k] : k \in {"review", "generate", "edit"}}
                 \cup {ENTRY, WS_ONLY}
      [] OTHER -> {ENTRY, WS_ONLY}

\* the arguments of the handlers called on their own
CallInputs ==
    {NoneInput, <<>>, WS_ONLY, ENTRY, OTHER_ENTRY,
     DONE_EN, DONE_EN_MIXED, DONE_AR, DONE_AR_SPACED, REVIEW_EN_MIXED}
        \cup FINALIZE_KEYWORDS

SeqsUpTo(S, n) == UNION {[1..k -> S] : k \in 0..n}

CallRecordLists == SeqsUpTo({[details |-> <<"x">>], [details |-> <<"y">>]}, MaxList)

CallSkillLists == SeqsUpTo({<<"x">>, <<"y">>}, MaxList)

CallDicts ==
    {EmptyDict,
     [name |-> <<"J">>],
     [name |-> <<"J">>, email |-> <<"j", "@", "x">>],
     [name |-> <<"J">>, email |-> <<"j", "@", "x">>, phone |-> <<"1">>, address |-> <<"A">>]}

CallFields == Range(PERSONAL_INFO_FIELDS) \cup {None, "nickname"}


----------------------------------------------------------------------------
\* The session: one stored state, one run of the graph per message

Connections == {"a", "b"}

\* no websocket connection is open
NoConnections == [c \in Connections |-> [open |-> FALSE]]

\* the section data a state holds
CollectedData(cv_state) ==
    [k \in {"personal_info", "education", "work_experience", "skills"} |-> cv_state[k]]

\* A session's state is created on first contact, in the language the
\* client names, with current_field the first personal-info field; CVState's
\* own default for current_field is None.
Init ==
    /\ \E language \in LANGUAGES, current_field \in {None, PERSONAL_INFO_FIELDS[1]} :
           state = Merge(CVState(language), [current_field |-> current_field])
    /\ turn = [outcome |-> "new", section |-> "personal_info",
               input |-> NoneInput, saved |-> FALSE, data |-> CollectedData(state),
               processed |-> state]
    /\ call = NoCall
    /\ ws = NoConnections

WithinBounds(cv_state) ==
    /\ Len(cv_state.education) <= MaxList
    /\ Len(cv_state.work_experience) <= MaxList
    /\ Len(cv_state.skills) <= MaxList

\* The stored state with the received input; no response is set yet.
Received(input) == Merge(state, [user_input |-> input, chatbot_response |-> None])

\* One run of the graph on the stored state with this input, and the save
\* of its result.  A run that raises saves nothing.
Run(current_state) ==
    \E env \in Envs(current_state) : \E r \in {GraphInvoke(current_state, env)} :
        /\ "result" \in DOMAIN r => WithinBounds(r.result)
        /\ state' = IF "result" \in DOMAIN r THEN r.result ELSE state
        /\ turn' = [outcome |-> r.outcome, section |-> state.current_section,
                    input |-> current_state.user_input, saved |-> "result" \in DOMAIN r,
                    data |-> CollectedData(state), processed |-> r.processed]
        /\ call' = r.call
        /\ UNCHANGED ws

\* First contact: the graph runs on the new state, without input, for the
\* first prompt.
Connect ==
    /\ turn.outcome = "new"
    /\ call = NoCall
    /\ Run(Received(NoneInput))

\* One message: the raw text is handed to the controller.  Turns after
\* completion are not run.
Message ==
    /\ turn.saved
    /\ ~state.is_complete
    /\ \E input \in MessageInputs(state.current_section, state.language) :
           Run(Received(input))

----------------
\* The handlers called on their own, as the unit tests call them

Fresh == turn.outcome = "new" /\ call = NoCall

CallPersonalInfo ==
    /\ Fresh
    /\ \E user_input \in CallInputs, d \in CallDicts, f \in CallFields :
           call' = [fn |-> "handle_personal_info", user_input |-> user_input,
                    language |-> state.language, arg |-> d, current_field |-> f,
                    ret |-> handle_personal_info(user_input, d, f), arg_after |-> d]
    /\ UNCHANGED <<state, turn, ws>>

CallEducation ==
    /\ Fresh
    /\ \E user_input \in CallInputs, l \in CallRecordLists, language \in LANGUAGES :
           LET h == handle_education(user_input, l, language)
           IN  call' = [fn |-> "handle_education", user_input |-> user_input,
                        language |-> language, arg |-> l,
                        ret |-> h.ret, arg_after |-> h.current_list]
    /\ UNCHANGED <<state, turn, ws>>

CallExperience ==
    /\ Fresh
    /\ \E user_input \in CallInputs, l \in CallRecordLists, language \in LANGUAGES :
           LET h == handle_experience(user_input, l, language)
           IN  call' = [fn |-> "handle_experience", user_input |-> user_input,
                        language |-> language, arg |-> l,
                        ret |-> h.ret, arg_after |-> h.current_list]
    /\ UNCHANGED <<state, turn, ws>>

CallSkills ==
    /\ Fresh
    /\ \E user_input \in CallInputs, l \in CallSkillLists, language \in LANGUAGES :
           LET h == handle_skills(user_input, l, language)
           IN  call' = IF "raise" \in DOMAIN h
                       THEN [fn |-> "handle_skills", user_input |-> user_input,
                             language |-> language, arg |-> l, raise |-> h.raise]
                       ELSE [fn |-> "handle_skills", user_input |-> user_input,
                             language |-> language, arg |-> l,
                             ret |-> h.ret, arg_after |-> h.current_list]
    /\ UNCHANGED <<state, turn, ws>>

CallFinalize ==
    /\ Fresh
    /\ \E user_input \in CallInputs, language \in LANGUAGES, render \in {"ok", "raise"} :
           call' = [fn |-> "handle_finalize", user_input |-> user_input,
                    language |-> language, arg |-> state, render |-> render,
                    ret |-> handle_finalize(user_input, state, language, render),
                    arg_after |-> state]
    /\ UNCHANGED <<state, turn, ws>>

----------------------------------------------------------------------------
\* app/core/state.py: CVState as JSON

JNull == [type |-> "null"]

JString(v) == [type |-> "string", chars |-> v]

JBool(b) == [type |-> "bool", value |-> b]

\* a dict[str, str] as a JSON object
JObject(d) == [type |-> "object", members |-> [k \in DOMAIN d |-> JString(d[k])]]

\* str | None
JOptional(v, none) == IF v = none THEN JNull ELSE JString(v)

FromJOptional(j, none) == IF j.type = "null" THEN none ELSE j.chars

FromJObject(j) == [k \in DOMAIN j.members |-> j.members[k].chars]

\* CVState.model_dump_json(): every field, in JSON
model_dump_json(cv_state) ==
    [language          |-> JString(cv_state.language),
     personal_info     |-> JObject(cv_state.personal_info),
     education         |-> [type |-> "array",
                            items |-> [i \in 1..Len(cv_state.education) |->
                                           JObject(cv_state.education[i])]],
     work_experience   |-> [type |-> "array",
                            items |-> [i \in 1..Len(cv_state.work_experience) |->
                                           JObject(cv_state.work_experience[i])]],
     skills            |-> [type |-> "array",
                            items |-> [i \in 1..Len(cv_state.skills) |->
                                           JString(cv_state.skills[i])]],
     validation_errors |-> JObject(cv_state.validation_errors),
     current_section   |-> JString(cv_state.current_section),
     current_field     |-> JOptional(cv_state.current_field, None),
     user_input        |-> JOptional(cv_state.user_input, NoneInput),
     chatbot_response  |-> JOptional(cv_state.chatbot_response, None),
     cv_output         |-> JOptional(cv_state.cv_output, None),
     is_complete       |-> JBool(cv_state.is_complete)]

\* CVState.model_validate_json(): the fields are read back and the two
\* field validators run on language and current_section.
model_validate_json(json) ==
    IF json.language.chars \notin LANGUAGES
    THEN [raise |-> "ValidationError"]
    ELSE IF json.current_section.chars \notin VALID_SECTIONS
    THEN [raise |-> "ValidationError"]
    ELSE [result |->
             [language          |-> json.language.chars,
              personal_info     |-> FromJObject(json.personal_info),
              education         |-> [i \in 1..Len(json.education.items) |->
                                        FromJObject(json.education.items[i])],
              work_experience   |-> [i \in 1..Len(json.work_experience.items) |->
                                        FromJObject(json.work_experience.items[i])],
              skills            |-> [i \in 1..Len(json.skills.items) |->
                                        json.skills.items[i].chars],
              validation_errors |-> FromJObject(json.validation_errors),
              current_section   |-> json.current_section.chars,
              current_field     |-> FromJOptional(json.current_field, None),
              user_input        |-> FromJOptional(json.user_input, NoneInput),
              chatbot_response  |-> FromJOptional(json.chatbot_response, None),
              cv_output         |-> FromJOptional(json.cv_output, None),
              is_complete       |-> json.is_complete.value]]

\* what the store does when it is asked: it answers, or the request fails
STORE_OUTCOMES == {"up", "down"}

----------------------------------------------------------------------------
\* app/services/redis_store.py

\* what client.get returns for a key that holds nothing
Nil == [type |-> "nil"]

\* RedisStore.save_state: setex of the state's JSON; a RedisError is raised
\* again as RuntimeError
RedisStore_save_state(stored, cv_state, store) ==
    IF store = "down"
    THEN [stored |-> stored, raise |-> "RuntimeError"]
    ELSE [stored |-> model_dump_json(cv_state)]

\* RedisStore.load_state: get, then model_validate_json.  A key that holds
\* nothing raises ValueError inside the try, and the except for ValueError
\* raises it again; a RedisError is raised again as RuntimeError.
RedisStore_load_state(stored, store) ==
    IF store = "down"
    THEN [raise |-> "RuntimeError"]
    ELSE IF stored = Nil
    THEN [raise |-> "ValueError"]
    ELSE IF "raise" \in DOMAIN model_validate_json(stored)
    THEN [raise |-> "ValueError"]
    ELSE [result |-> model_validate_json(stored).result]

----------------
\* CVState constructed on its own, as tests/test_state.py constructs it

\* @field_validator("language")
CVState_validate_language(v) ==
    IF v \notin {"en", "ar"} THEN [raise |-> "ValueError"] ELSE [ret |-> v]

\* @field_validator("current_section")
CVState_validate_section(v) ==
    IF v \notin VALID_SECTIONS THEN [raise |-> "ValueError"] ELSE [ret |-> v]

\* Stands in for CVState(**kwargs): a section that is not known is replaced
\* by the default one.
CVState_init_defaults_section(kwargs) ==
    IF "language" \in DOMAIN kwargs
       /\ "raise" \in DOMAIN CVState_validate_language(kwargs.language)
    THEN [raise |-> "ValidationError"]
    ELSE IF "current_section" \in DOMAIN kwargs
            /\ "raise" \in DOMAIN CVState_validate_section(kwargs.current_section)
    THEN [result |-> Merge(CVState("ar"), [k \in DOMAIN kwargs \ {"current_section"} |-> kwargs[k]])]
    ELSE [result |-> Merge(CVState("ar"), kwargs)]

\* CVState(**kwargs): the validators run on the fields that are given, the
\* other fields take their defaults.
CVState_init(kwargs) ==
    IF "language" \in DOMAIN kwargs
       /\ "raise" \in DOMAIN CVState_validate_language(kwargs.language)
    THEN [raise |-> "ValidationError"]
    ELSE IF "current_section" \in DOMAIN kwargs
            /\ "raise" \in DOMAIN CVState_validate_section(kwargs.current_section)
    THEN [raise |-> "ValidationError"]
    ELSE [result |-> Merge(CVState("ar"), kwargs)]

\* the languages and sections a state is constructed with
CallLanguages == LANGUAGES \cup {"invalid"}

CallSections == VALID_SECTIONS \cup {"invalid_section", "invalid", "completed"}

CallKwargs ==
    {EmptyDict}
    \cup {[language |-> l] : l \in CallLanguages}
    \cup {[current_section |-> s] : s \in CallSections}
    \cup {[language |-> l, current_section |-> s] : l \in CallLanguages, s \in CallSections}

CallCVState ==
    /\ Fresh
    /\ \E kwargs \in CallKwargs :
           call' = [fn |-> "CVState", kwargs |-> kwargs] @@ CVState_init(kwargs)
    /\ UNCHANGED <<state, turn, ws>>

----------------
\* validate_input called on its own

CallValidationSections == {"personal_info", "education", "finalize", "unknown"}

\* no data, personal information without email and phone, and personal
\* information that passes the structural rules
CallValidationData ==
    {EmptyDict,
     [name |-> <<"x">>],
     [name |-> <<"x">>,
      email |-> <<"a", "@", "b", ".", "c", "o">>,
      phone |-> <<"+", "1", "2", "3", "4", "5", "6", "7", "8">>]}

JUDGE_OUTCOMES == {"VALID", "INVALID", "ERROR"}

CallValidateInput ==
    /\ Fresh
    /\ \E section \in CallValidationSections, data \in CallValidationData,
          strict \in BOOLEAN, judges \in [1..MAX_ATTEMPTS -> JUDGE_OUTCOMES] :
           call' = [fn |-> "validate_input", section |-> section, data |-> data,
                    strict |-> strict, judges |-> judges]
                   @@ retry(section, data, strict, judges, 1, 0)
    /\ UNCHANGED <<state, turn, ws>>

----------------
\* RedisStore called on its own, as tests/test_redis_store.py calls it

\* what the key holds: nothing, or what save_state wrote for the session's
\* state
CallStored == {Nil} \cup {RedisStore_save_state(Nil, state, "up").stored}

CallLoadState ==
    /\ Fresh
    /\ \E stored \in CallStored, store \in STORE_OUTCOMES :
           call' = [fn |-> "load_state", stored |-> stored, store |-> store]
                   @@ RedisStore_load_state(stored, store)
    /\ UNCHANGED <<state, turn, ws>>

----------------
\* DataValidator.pre_validate_section_data on the list of a section, as the
\* tools call it.  The result is None, or the messages of the entries found
\* wrong, joined.

\* Python's truth of item.get(key): a missing key and "" are false
Truthy(item, key) == key \in DOMAIN item /\ item[key] # <<>>

\* sep.join(parts)
RECURSIVE join(_, _)
join(sep, parts) ==
    IF Len(parts) = 0 THEN ""
    ELSE IF Len(parts) = 1 THEN parts[1]
    ELSE parts[1] \o sep \o join(sep, Tail(parts))

\* the message for one entry, None when it passes
ItemError(section, item) ==
    IF section \in {"education", "work_experience"}
    THEN IF section = "education" /\ ~Truthy(item, "school")
         THEN "Entry is missing the 'school' name."
         ELSE IF section = "work_experience" /\ ~Truthy(item, "company")
         THEN "Entry is missing the 'company' name."
         ELSE IF /\ ~Truthy(item, "details")
                 /\ ~(Truthy(item, "title") \/ Truthy(item, "degree"))
         THEN "Entry seems incomplete (missing details/title/degree)."
         ELSE None
    ELSE IF strip(item) = <<>>
    THEN "Skill entry is invalid or empty."
    ELSE None

pre_validate_section_data(section, data) ==
    IF section \notin RULE_SECTIONS
    THEN "Internal configuration error: Cannot validate unknown section"
    ELSE IF Len(data) = 0
    THEN IF SECTION_REQUIRED(section)
         THEN "Missing required data for section"
         ELSE None
    ELSE LET item_errors ==
                 SelectSeq([i \in 1..Len(data) |-> ItemError(section, data[i])],
                           LAMBDA e : e # None)
         IN  IF item_errors = <<>> THEN None ELSE join("; ", item_errors)

\* entries as the list handlers store them, with and without text, and
\* entries with the attributes the check looks for
CallEntries ==
    {[details |-> <<"x">>], [details |-> <<>>],
     [school |-> <<"S">>], [school |-> <<"S">>, degree |-> <<"D">>],
     [school |-> <<"S">>, details |-> <<"x">>],
     [company |-> <<"C">>], [company |-> <<"C">>, title |-> <<"T">>]}

CallSkillItems == {<<"x">>, <<>>, <<" ">>}

CallSectionLists(section) ==
    IF section = "skills" THEN SeqsUpTo(CallSkillItems, MaxList)
    ELSE SeqsUpTo(CallEntries, MaxList)

CallPreValidate ==
    /\ Fresh
    /\ \E section \in {"education", "work_experience", "skills"} :
           \E data \in CallSectionLists(section) :
               call' = [fn |-> "pre_validate_section_data", section |-> section,
                        data |-> data, ret |-> pre_validate_section_data(section, data)]
    /\ UNCHANGED <<state, turn, ws>>

Next ==
    \/ Connect
    \/ Message
    \/ CallPersonalInfo
    \/ CallEducation
    \/ CallExperience
    \/ CallSkills
    \/ CallFinalize
    \/ CallCVState
    \/ CallValidateInput
    \/ CallLoadState
    \/ CallPreValidate

Spec == Init /\ [][Next]_vars

----------------------------------------------------------------------------
\* app/main.py: the builder as one file.  It repeats PERSONAL_INFO_FIELDS,
\* PROMPTS and KEYWORDS of app/core/constants.py; its state class has no
\* validators and no validation_errors, and its controller validates
\* nothing.

\* CVState(language=language, current_section="personal_info",
\*         current_field=PERSONAL_INFO_FIELDS[0])
main_CVState(language) ==
    [language |-> language,
     personal_info |-> EmptyDict,
     education |-> <<>>,
     work_experience |-> <<>>,
     skills |-> <<>>,
     current_section |-> "personal_info",
     current_field |-> PERSONAL_INFO_FIELDS[1],
     user_input |-> NoneInput,
     chatbot_response |-> None,
     cv_output |-> None,
     is_complete |-> FALSE]

main_NO_HANDLER == "An internal error occurred (unknown section). Please contact support."

main_NO_PROMPT == "An unexpected error occurred regarding the next step."

main_handle_personal_info(user_input, current_personal_info, current_field) ==
    IF current_field \in {None, ""}
    THEN [current_field |-> PERSONAL_INFO_FIELDS[1], current_section |-> "personal_info"]
    ELSE LET updated_personal_info ==
                 Merge(current_personal_info, current_field :> strip(user_input))
         IN  IF /\ current_field \in Range(PERSONAL_INFO_FIELDS)
                /\ IndexOf(PERSONAL_INFO_FIELDS, current_field) < Len(PERSONAL_INFO_FIELDS)
             THEN [personal_info |-> updated_personal_info,
                   current_field |->
                       PERSONAL_INFO_FIELDS[IndexOf(PERSONAL_INFO_FIELDS, current_field) + 1],
                   current_section |-> "personal_info"]
             ELSE [personal_info |-> updated_personal_info,
                   current_section |-> "education",
                   current_field |-> None]

main_handle_list_section(user_input, current_list, list_key, next_section, language) ==
    LET input_strip == strip(user_input)
        input_lower == lower(input_strip)
        done_keyword == lower(KEYWORDS[language].done)
    IN  IF input_lower = done_keyword
        THEN [current_section |-> next_section, current_field |-> None]
        ELSE IF input_strip = <<>>
        THEN [current_section |-> list_key, chatbot_response |-> REPROMPT_DETAILS]
        ELSE LET updated_list ==
                     Append(current_list,
                            IF list_key = "skills" THEN input_strip
                            ELSE [details |-> input_strip])
             IN  (list_key :> updated_list)
                     @@ [current_section |-> list_key, current_field |-> None]

main_handle_generate(cv_state, render) ==
    [cv_output |-> IF render = "ok" THEN CV_GENERATED(cv_state.language)
                   ELSE CV_ERROR(cv_state.language),
     is_complete |-> render = "ok",
     chatbot_response |-> None,
     user_input |-> NoneInput,
     current_section |-> IF render = "ok" THEN "completed" ELSE "finalize",
     current_field |-> None]

main_handle_finalize(user_input, cv_state, language, render) ==
    LET input_lower == lower(strip(user_input))
        kw == KEYWORDS[language]
    IN  IF input_lower = lower(kw.generate)
        THEN main_handle_generate(cv_state, render)
        ELSE IF input_lower = lower(kw.review)
        THEN [current_section |-> "review", current_field |-> None]
        ELSE IF input_lower = lower(kw.edit)
        THEN [current_section |-> "personal_info",
              current_field |-> PERSONAL_INFO_FIELDS[1],
              is_complete |-> FALSE,
              cv_output |-> None]
        ELSE [chatbot_response |-> USAGE_HINT(language),
              current_section |-> "finalize",
              current_field |-> None]

\* The handlers raise nothing on a str input, so the except branch is not
\* taken.
main_process_input(cv_state, render) ==
    LET user_input == cv_state.user_input
        current_section == cv_state.current_section
        language == cv_state.language
        updates ==
            CASE current_section = "personal_info" ->
                     main_handle_personal_info(user_input, cv_state.personal_info,
                                               cv_state.current_field)
              [] current_section = "education" ->
                     main_handle_list_section(user_input, cv_state.education,
                                              "education", "skills", language)
              [] current_section = "work_experience" ->
                     main_handle_list_section(user_input, cv_state.work_experience,
                                              "work_experience", "finalize", language)
              [] current_section = "skills" ->
                     main_handle_list_section(user_input, cv_state.skills,
                                              "skills", "finalize", language)
              [] current_section = "finalize" ->
                     main_handle_finalize(user_input, cv_state, language, render)
              [] OTHER ->
                     [chatbot_response |-> main_NO_HANDLER,
                      current_section |-> "personal_info",
                      current_field |-> PERSONAL_INFO_FIELDS[1]]
    IN  IF user_input = NoneInput \/ strip(user_input) = <<>>
        THEN [user_input |-> NoneInput, chatbot_response |-> None]
        ELSE Merge(IF "chatbot_response" \in DOMAIN updates THEN updates
                   ELSE Merge(updates, [chatbot_response |-> None]),
                   [user_input |-> NoneInput])

main_generate_prompt(cv_state) ==
    IF cv_state.chatbot_response \notin {None, ""}
    THEN [chatbot_response |-> cv_state.chatbot_response]
    ELSE IF cv_state.is_complete /\ cv_state.cv_output \notin {None, ""}
    THEN [chatbot_response |-> cv_state.cv_output]
    ELSE LET language == cv_state.language
             current_section == cv_state.current_section
         IN  IF current_section = "review"
             THEN [chatbot_response |-> REVIEW_TEXT(language),
                   current_section |-> "finalize",
                   current_field |-> None,
                   user_input |-> NoneInput]
             ELSE IF current_section = "personal_info"
             THEN IF cv_state.current_field \in Range(PERSONAL_INFO_FIELDS)
                  THEN [chatbot_response |-> FIELD_PROMPT(language, cv_state.current_field),
                        user_input |-> NoneInput]
                  ELSE [chatbot_response |-> FIELD_PROMPT(language, PERSONAL_INFO_FIELDS[1]),
                        current_field |-> PERSONAL_INFO_FIELDS[1],
                        user_input |-> NoneInput]
             ELSE IF current_section \in PROMPT_SECTIONS
             THEN [chatbot_response |-> SECTION_PROMPT(language, current_section),
                   user_input |-> NoneInput]
             ELSE [chatbot_response |-> main_NO_PROMPT, user_input |-> NoneInput]

\* graph.invoke: process_input, then END if the state is complete,
\* generate_prompt otherwise.
main_GraphInvoke(cv_state, render) ==
    LET s1 == Merge(cv_state, main_process_input(cv_state, render))
    IN  IF s1.is_complete THEN s1 ELSE Merge(s1, main_generate_prompt(s1))

----------------
\* websocket_endpoint: the connections of one session id.  The store is
\* taken to answer and the key not to expire.  Between two awaits a
\* connection's code runs alone, so a connect and a message are one step
\* each; the steps of two connections interleave.

\* the store holds nothing under the session's key
NoSession == [session |-> "none"]

\* the renderer is called only when the finalize handler generates
main_Renders(cv_state) ==
    IF /\ cv_state.current_section = "finalize"
       /\ cv_state.user_input # NoneInput
       /\ lower(strip(cv_state.user_input)) = lower(KEYWORDS[cv_state.language].generate)
    THEN {"ok", "raise"} ELSE {"ok"}

\* what a user may send while the stored session is in this section
main_MessageInputs(section, language) ==
    CASE section \in {"education", "work_experience", "skills"} ->
             {ENTRY, KEYWORDS[language].done, WS_ONLY}
      [] section = "finalize" ->
             {KEYWORDS[language][k] : k \in {"review", "generate", "edit"}}
                 \cup {ENTRY, WS_ONLY}
      [] OTHER -> {ENTRY, WS_ONLY}

main_WithinBounds(cv_state) ==
    /\ Len(cv_state.education) <= MaxList
    /\ Len(cv_state.work_experience) <= MaxList
    /\ Len(cv_state.skills) <= MaxList

\* load_state: the stored state, or None when nothing is stored or the
\* store cannot be reached
main_load_state(stored, store) == IF store = "down" THEN NoSession ELSE stored

\* Stands in for save_state: a save that fails removes the stored entry.
main_save_state_drops_entry(stored, cv_state, store) ==
    IF store = "down"
    THEN [stored |-> NoSession, raised |-> None]
    ELSE [stored |-> cv_state, raised |-> None]

\* save_state: setex of the state's JSON under the session's key.  Both
\* except branches print and return, so nothing is raised to the caller.
main_save_state(stored, cv_state, store) ==
    IF store = "down"
    THEN [stored |-> stored, raised |-> None]
    ELSE [stored |-> cv_state, raised |-> None]

\* No turn has been taken.
NoTurn ==
    [kind |-> "none", conn |-> "none", input |-> NoneInput, before |-> NoSession,
     result |-> NoSession, load |-> "none", save |-> "none", raised |-> None]

MainInit ==
    /\ state = NoSession
    /\ ws = NoConnections
    /\ turn = NoTurn
    /\ call = NoCall

\* A client opens connection c with the session id.  A stored state that
\* is complete is answered with its cv_output and the connection closed;
\* otherwise the graph runs without input for the prompt, on the loaded
\* state or on a new one when none was loaded, the result is saved, and
\* the message loop is entered unless the result is complete.  An exception
\* ends the connection.
main_Connect(c) ==
    /\ ~ws[c].open
    /\ \E language \in LANGUAGES, load \in STORE_OUTCOMES, save \in STORE_OUTCOMES :
       \E loaded \in {main_load_state(state, load)} :
           IF /\ loaded # NoSession
              /\ loaded.is_complete
              /\ loaded.cv_output \notin {None, ""}
           THEN /\ save = "up"
                /\ turn' = [NoTurn EXCEPT !.kind = "closed_complete", !.conn = c,
                                          !.before = state, !.load = load]
                /\ UNCHANGED <<state, ws>>
           ELSE \E result \in {main_GraphInvoke(
                                   IF loaded = NoSession THEN main_CVState(language)
                                   ELSE Merge(loaded, [chatbot_response |-> None,
                                                       user_input |-> NoneInput]),
                                   "ok")} :
                \E saved \in {main_save_state(state, result, save)} :
                    /\ state' = saved.stored
                    /\ ws' = [ws EXCEPT ![c] =
                                 [open |-> saved.raised = None /\ ~result.is_complete,
                                  is_complete |-> result.is_complete]]
                    /\ turn' = [kind |-> "connect", conn |-> c, input |-> NoneInput,
                                before |-> state, result |-> result, load |-> load,
                                save |-> save, raised |-> saved.raised]
    /\ UNCHANGED call

\* Connection c, in its message loop (entered and kept while its local
\* state is not complete), receives a message.  Text that is empty after
\* strip() is answered without a run.  Otherwise the stored state is
\* loaded; when none is loaded the loop ends and the connection is closed.
\* The graph runs on the loaded state with the text, and the result becomes
\* the connection's local state and is saved.
main_Message(c) ==
    /\ ws[c].open
    /\ ~ws[c].is_complete
    /\ \E text \in IF state = NoSession THEN {ENTRY, WS_ONLY}
                   ELSE main_MessageInputs(state.current_section, state.language) :
           IF strip(text) = <<>>
           THEN /\ turn' = [NoTurn EXCEPT !.kind = "blank", !.conn = c,
                                          !.input = text, !.before = state]
                /\ UNCHANGED <<state, ws>>
           ELSE \E load \in STORE_OUTCOMES :
                \E loaded \in {main_load_state(state, load)} :
                    IF loaded = NoSession
                    THEN /\ turn' = [NoTurn EXCEPT !.kind = "expired", !.conn = c,
                                                   !.input = text, !.before = state,
                                                   !.load = load]
                         /\ ws' = [ws EXCEPT ![c] = [open |-> FALSE]]
                         /\ UNCHANGED state
                    ELSE \E current_state \in {Merge(loaded, [user_input |-> strip(text),
                                                              chatbot_response |-> None])} :
                         \E render \in main_Renders(current_state),
                            save \in STORE_OUTCOMES :
                         \E result \in {main_GraphInvoke(current_state, render)} :
                         \E saved \in {main_save_state(state, result, save)} :
                             /\ main_WithinBounds(result)
                             /\ state' = saved.stored
                             /\ ws' = [ws EXCEPT ![c] =
                                          [open |-> saved.raised = None
                                                    /\ ~result.is_complete,
                                           is_complete |-> result.is_complete]]
                             /\ turn' = [kind |-> "message", conn |-> c, input |-> text,
                                         before |-> state, result |-> result,
                                         load |-> load, save |-> save,
                                         raised |-> saved.raised]
    /\ UNCHANGED call

\* The client of connection c goes away: receive_json raises and the
\* connection is closed.
main_Disconnect(c) ==
    /\ ws[c].open
    /\ ws' = [ws EXCEPT ![c] = [open |-> FALSE]]
    /\ turn' = [NoTurn EXCEPT !.kind = "disconnect", !.conn = c, !.before = state]
    /\ UNCHANGED <<state, call>>

MainNext ==
    \E c \in Connections :
        \/ main_Connect(c)
        \/ main_Message(c)
        \/ main_Disconnect(c)

MainSpec == MainInit /\ [][MainNext]_vars

----------------------------------------------------------------------------
\* The section sequence the specification states.

SECTION_ORDER == <<"personal_info", "education", "work_experience", "skills", "finalize">>

\* The last turn ran in a section with a handler, its update was accepted
\* and saved, and it left the section it ran in.
ClosedSection ==
    /\ turn.saved
    /\ turn.outcome = "accepted"
    /\ turn.section \in Range(SubSeq(SECTION_ORDER, 1, 4))
    /\ state.current_section # turn.section

\* C1: a turn that closes one of the first four sections moves
\* current_section to the section that follows it in the sequence
\* personal_info, education, work_experience, skills, finalize.
C1_SectionOrder ==
    ClosedSection =>
        state.current_section = SECTION_ORDER[IndexOf(SECTION_ORDER, turn.section) + 1]

\* C2: a turn whose validation failed leaves current_section as it was and
\* records the failure message under that section in validation_errors.
C2_ValidationGating ==
    (turn.saved /\ turn.outcome = "invalid") =>
        /\ state.current_section = turn.section
        /\ turn.section \in DOMAIN state.validation_errors

----------------------------------------------------------------------------
\* What the properties say of an input, stated without strip() and lower().

\* the text of an argument: None counts as the empty text
TextOf(user_input) == IF user_input = NoneInput THEN <<>> ELSE user_input

HasText(v) == \E i \in 1..Len(v) : v[i] \notin WHITESPACE

\* t is v without its leading and trailing whitespace
IsTrimOf(t, v) ==
    \E i \in 1..(Len(v) + 1), j \in 0..Len(v) :
        /\ i <= j + 1
        /\ t = SubSeq(v, i, j)
        /\ \A k \in 1..Len(v) : (k < i \/ k > j) => v[k] \in WHITESPACE
        /\ i <= j => (v[i] \notin WHITESPACE /\ v[j] \notin WHITESPACE)

SameLetter(a, b) == a = b \/ \E i \in 1..Len(UPPER) : {a, b} = {UPPER[i], LOWER[i]}

\* v is the keyword kw in some letter case, with whitespace around it
IsKeywordText(v, kw) ==
    \E i \in 1..(Len(v) + 1) :
        /\ i + Len(kw) - 1 <= Len(v)
        /\ \A k \in 1..Len(v) : (k < i \/ k > i + Len(kw) - 1) => v[k] \in WHITESPACE
        /\ \A k \in 1..Len(kw) : SameLetter(v[i + k - 1], kw[k])

LIST_HANDLERS ==
    [handle_education |-> "education", handle_experience |-> "work_experience",
     handle_skills |-> "skills"]

\* the successor each list handler is configured with
CONFIGURED_SUCCESSOR ==
    [education |-> "skills", work_experience |-> "finalize", skills |-> "finalize"]

\* the last handler call was a list handler's, and it returned
ListCallReturned == call.fn \in DOMAIN LIST_HANDLERS /\ "ret" \in DOMAIN call

\* C3: handle_personal_info called with a registry field f and input v
\* returns the previous mapping with f set to v trimmed and the other keys
\* as they were; before the last field current_field becomes the next
\* field and current_section stays personal_info, at the last field
\* current_section becomes education and current_field None.
C3_PersonalInfoStep ==
    (call.fn = "handle_personal_info" /\ call.current_field \in Range(PERSONAL_INFO_FIELDS)) =>
        LET f == call.current_field
            i == IndexOf(PERSONAL_INFO_FIELDS, f)
            ret == call.ret
        IN  /\ DOMAIN ret.personal_info = DOMAIN call.arg \cup {f}
            /\ IsTrimOf(ret.personal_info[f], TextOf(call.user_input))
            /\ \A k \in DOMAIN call.arg \ {f} : ret.personal_info[k] = call.arg[k]
            /\ i < Len(PERSONAL_INFO_FIELDS) =>
                   /\ ret.current_field = PERSONAL_INFO_FIELDS[i + 1]
                   /\ ret.current_section = "personal_info"
            /\ i = Len(PERSONAL_INFO_FIELDS) =>
                   /\ ret.current_section = "education"
                   /\ ret.current_field = None

\* the last field, entered with whitespace around it, onto collected fields
C3_Witness ==
    /\ call.fn = "handle_personal_info"
    /\ call.current_field = "address"
    /\ call.user_input = ENTRY
    /\ "name" \in DOMAIN call.arg
    /\ call.ret.personal_info.address = <<"x">>
    /\ call.ret.current_section = "education"

\* C4: a list handler given the language's done keyword, in any letter
\* case and with whitespace around it, returns the move to the section's
\* configured successor with current_field None and no value for the list.
C4_DoneAdvances ==
    (ListCallReturned /\ IsKeywordText(TextOf(call.user_input), KEYWORDS[call.language].done)) =>
        /\ call.ret.current_section = CONFIGURED_SUCCESSOR[LIST_HANDLERS[call.fn]]
        /\ call.ret.current_field = None
        /\ LIST_HANDLERS[call.fn] \notin DOMAIN call.ret

C4_Witness ==
    /\ call.fn = "handle_experience"
    /\ call.language = "en"
    /\ call.user_input = DONE_EN_MIXED
    /\ call.arg # <<>>
    /\ call.ret = [current_section |-> "finalize", current_field |-> None]

\* C5: a list handler given an input that has text and is not the
\* language's done keyword returns the list with one entry appended at its
\* end ({details: trimmed input}, for skills the trimmed input), the
\* earlier entries in their order, current_section the handler's section,
\* and leaves the caller's list as it was.
C5_AppendsOne ==
    (/\ ListCallReturned
     /\ HasText(TextOf(call.user_input))
     /\ ~IsKeywordText(TextOf(call.user_input), KEYWORDS[call.language].done)) =>
        LET key == LIST_HANDLERS[call.fn]
            n == Len(call.arg)
        IN  /\ key \in DOMAIN call.ret
            /\ Len(call.ret[key]) = n + 1
            /\ \A i \in 1..n : call.ret[key][i] = call.arg[i]
            /\ IF key = "skills"
               THEN IsTrimOf(call.ret[key][n + 1], call.user_input)
               ELSE /\ DOMAIN call.ret[key][n + 1] = {"details"}
                    /\ IsTrimOf(call.ret[key][n + 1].details, call.user_input)
            /\ call.ret.current_section = key
            /\ call.arg_after = call.arg

C5_Witness ==
    /\ call.fn = "handle_education"
    /\ call.user_input = ENTRY
    /\ Len(call.arg) >= 1
    /\ call.ret.education = Append(call.arg, [details |-> <<"x">>])
    /\ call.arg_after = call.arg

\* the re-prompt of a list section's handler
Reprompt(key) == IF key = "skills" THEN REPROMPT_SKILL ELSE REPROMPT_DETAILS

\* the last handler call was a list handler's, with a str without text
BlankListCall ==
    ListCallReturned /\ call.user_input # NoneInput /\ ~HasText(call.user_input)

\* the last turn was saved, ran in a list section and had a str without text
BlankListTurn(t) ==
    /\ t.saved
    /\ t.section \in DOMAIN CONFIGURED_SUCCESSOR
    /\ t.input # NoneInput /\ ~HasText(t.input)

\* a list handler called with an empty or whitespace-only input returns no
\* list, its own section and its re-prompt, and leaves the caller's list
BlankCallReprompts ==
    BlankListCall =>
        /\ LIST_HANDLERS[call.fn] \notin DOMAIN call.ret
        /\ call.ret.current_section = LIST_HANDLERS[call.fn]
        /\ call.ret.chatbot_response = Reprompt(LIST_HANDLERS[call.fn])
        /\ call.arg_after = call.arg

\* C6 as stated: an empty or whitespace-only input in a list section, to
\* the handler called directly and in a full turn through the controller,
\* stays in the section and carries the re-prompt for details (for skills,
\* a skill) or 'done'.
C6_BlankReprompts ==
    /\ BlankCallReprompts
    /\ BlankListTurn(turn) =>
           /\ state.current_section = turn.section
           /\ state.chatbot_response = Reprompt(turn.section)

\* C6, amended: the handler called directly is as stated; a full turn
\* through the controller with such an input calls no handler, stays in the
\* section, answers with the section's prompt PROMPTS[language][section],
\* and leaves the three lists as they were.
C6_BlankTurnPrompts ==
    /\ [](/\ BlankCallReprompts
          /\ BlankListTurn(turn) =>
                 /\ turn.outcome = "empty"
                 /\ call = NoCall
                 /\ state.current_section = turn.section
                 /\ state.chatbot_response = SECTION_PROMPT(state.language, turn.section))
    /\ [][(BlankListTurn(turn') /\ state.current_section = turn'.section) =>
              /\ state'.education = state.education
              /\ state'.work_experience = state.work_experience
              /\ state'.skills = state.skills]_vars

\* the turn of the scenario: skills, input "", with a skill collected
C6_Witness ==
    /\ turn.saved
    /\ turn.section = "skills"
    /\ turn.input = <<>>
    /\ state.skills # <<>>
    /\ state.chatbot_response = SECTION_PROMPT(state.language, "skills")

\* C7: handle_education called with language en and the input 'done'
\* returns current_section = skills and current_field = None and nothing
\* else, and the education list is as it was.
C7_EducationDone ==
    (call.fn = "handle_education" /\ call.language = "en" /\ call.user_input = DONE_EN) =>
        /\ call.ret = [current_section |-> "skills", current_field |-> None]
        /\ call.arg_after = call.arg

\* the scenario in a session: the turn ran in education with the input 'done'
C7_Witness ==
    /\ turn.section = "education"
    /\ turn.input = DONE_EN
    /\ call.fn = "handle_education"
    /\ call.language = "en"
    /\ call.arg = <<>>
    /\ call.ret.current_section = "skills"
    /\ state.current_section = "skills"
    /\ state.education = <<>>

\* the keywords of the other language
OtherKeywords(language) == KEYWORDS[CHOOSE l \in LANGUAGES : l # language]

\* C8: a list handler given the done keyword of the other language appends
\* it as an entry and stays in its section; the finalize handler given the
\* review, generate or edit keyword of the other language returns the usage
\* hint and stays in finalize.
C8_LanguageIsolation ==
    /\ (ListCallReturned
           /\ IsKeywordText(TextOf(call.user_input), OtherKeywords(call.language).done)) =>
          LET key == LIST_HANDLERS[call.fn]
              entry == call.ret[key][Len(call.arg) + 1]
          IN  /\ key \in DOMAIN call.ret
              /\ Len(call.ret[key]) = Len(call.arg) + 1
              /\ IsKeywordText(IF key = "skills" THEN entry ELSE entry.details,
                               OtherKeywords(call.language).done)
              /\ call.ret.current_section = key
    /\ (call.fn = "handle_finalize"
           /\ \E k \in {"review", "generate", "edit"} :
                  IsKeywordText(TextOf(call.user_input), OtherKeywords(call.language)[k])) =>
          call.ret = [chatbot_response |-> USAGE_HINT(call.language),
                      current_section |-> "finalize",
                      current_field |-> None]

\* the English 'done' sent to the skills handler of an Arabic session
C8_Witness ==
    /\ call.fn = "handle_skills"
    /\ call.language = "ar"
    /\ call.user_input = DONE_EN
    /\ call.ret.skills = Append(call.arg, DONE_EN)
    /\ call.ret.current_section = "skills"

\* every personal-info field has a value
AllCollected == \A f \in Range(PERSONAL_INFO_FIELDS) : f \in DOMAIN state.personal_info

\* C9 as stated: in every state persisted at the end of a turn,
\* current_field is non-null if and only if current_section is
\* personal_info and not all personal-info fields have been collected.
C9_FieldIffCollecting ==
    turn.saved =>
        (state.current_field # None
            <=> (state.current_section = "personal_info" /\ ~AllCollected))

\* C9, amended: in every state persisted at the end of a turn, a non-null
\* current_field names a registry field and current_section is
\* personal_info; while in personal_info with a field not yet collected
\* current_field is non-null, and before anything is collected it is the
\* first field; in personal_info current_field is None only after the
\* reset of a section without a handler, or after a handler error that
\* followed it.
C9_FieldOnlyInPersonalInfo ==
    turn.saved =>
        /\ state.current_field # None =>
               /\ state.current_section = "personal_info"
               /\ state.current_field \in Range(PERSONAL_INFO_FIELDS)
        /\ (state.current_section = "personal_info" /\ ~AllCollected) =>
               state.current_field # None
        /\ (state.current_section = "personal_info" /\ state.personal_info = EmptyDict) =>
               state.current_field = PERSONAL_INFO_FIELDS[1]
        /\ (state.current_section = "personal_info" /\ state.current_field = None) =>
               turn.outcome \in {"no_handler", "exception"}

\* after 'edit' in finalize: the first field is asked again, all collected
C9_Witness ==
    /\ turn.saved
    /\ turn.section = "finalize"
    /\ state.current_section = "personal_info"
    /\ state.current_field = PERSONAL_INFO_FIELDS[1]
    /\ AllCollected

\* review is shown from finalize and returns to it
SectionRank(section) ==
    IF section = "review" THEN Len(SECTION_ORDER) ELSE IndexOf(SECTION_ORDER, section)

\* C10: a saved turn leaves current_section at the section it ran in or a
\* later one, unless it ran in finalize with the language's edit keyword
\* and reset current_section to personal_info.
C10_NoBackward ==
    turn.saved =>
        \/ SectionRank(state.current_section) >= SectionRank(turn.section)
        \/ /\ turn.section = "finalize"
           /\ IsKeywordText(TextOf(turn.input), KEYWORDS[state.language].edit)
           /\ state.current_section = "personal_info"

----------------------------------------------------------------------------
\* Completion

\* the turn just run was dispatched to the finalize handler with the
\* session language's 'generate' keyword
GenerateTurn ==
    /\ turn.section = "finalize"
    /\ call.fn = "handle_finalize"
    /\ IsKeywordText(turn.input, KEYWORDS[state.language].generate)

\* C11: is_complete is set to TRUE only by a successful generation: in
\* every state the controller produces with is_complete = TRUE, the turn
\* that produced it was a finalize 'generate' turn whose rendering raised
\* no error and whose transition was accepted, and cv_output holds the
\* generated-document message.
C11_CompleteOnlyByGeneration ==
    \A s \in {state, turn.processed} :
        s.is_complete =>
            /\ GenerateTurn
            /\ call.render = "ok"
            /\ turn.outcome = "accepted"
            /\ s.cv_output = CV_GENERATED(s.language)

\* C12: completed is terminal: once the persisted state has
\* is_complete = TRUE, no later turn or reconnection changes the persisted
\* state; further input is rejected or ignored.
C12_CompletedTerminal ==
    (turn.before # NoSession /\ turn.before.is_complete) => state = turn.before

\* a call of the finalize handler with the 'generate' keyword of the
\* call's language
GenerateCall ==
    /\ call.fn = "handle_finalize"
    /\ IsKeywordText(TextOf(call.user_input), KEYWORDS[call.language].generate)

\* C13: in finalize, 'generate' with a renderer that succeeds sets
\* is_complete = TRUE, stores the generated-document message (the rendered
\* text with the download reference, in the language of the state) in
\* cv_output and clears chatbot_response and user_input: in the handler's
\* update, and in the controller's state after process_input when the turn
\* is accepted.
C13_GenerateCompletes ==
    (GenerateCall /\ call.render = "ok") =>
        /\ call.ret.is_complete = TRUE
        /\ call.ret.cv_output = CV_GENERATED(call.arg.language)
        /\ call.ret.chatbot_response = None
        /\ call.ret.user_input = NoneInput
        /\ (turn.outcome = "accepted" =>
               /\ turn.processed.is_complete = TRUE
               /\ turn.processed.cv_output = CV_GENERATED(state.language)
               /\ turn.processed.chatbot_response = None
               /\ turn.processed.user_input = NoneInput)

C13_Witness ==
    /\ GenerateTurn
    /\ GenerateCall
    /\ call.render = "ok"
    /\ turn.outcome = "accepted"
    /\ state.cv_output = None
    /\ turn.processed.is_complete

\* the turn just run was a 'generate' turn whose renderer raised
FailedGenerateTurn ==
    /\ GenerateTurn
    /\ call.render = "raise"
    /\ turn.outcome = "accepted"

\* C14: when the renderer raises during 'generate', the handler's update
\* puts the error message into cv_output, with is_complete FALSE and
\* current_section finalize; the turn persists exactly that, and a
\* following 'generate' turn is dispatched to the finalize handler again.
C14_FailedGenerateRetries ==
    /\ []((GenerateCall /\ call.render = "raise") =>
              /\ call.ret.cv_output = CV_ERROR(call.arg.language)
              /\ call.ret.is_complete = FALSE
              /\ call.ret.current_section = "finalize")
    /\ [](FailedGenerateTurn =>
              /\ turn.saved
              /\ state.cv_output = CV_ERROR(state.language)
              /\ state.is_complete = FALSE
              /\ state.current_section = "finalize")
    /\ [][(/\ FailedGenerateTurn
           /\ turn' # turn
           /\ IsKeywordText(turn'.input, KEYWORDS[state.language].generate))
          => (/\ turn'.section = "finalize"
              /\ call'.fn = "handle_finalize"
              /\ call'.arg.cv_output = CV_ERROR(state.language))]_vars

\* the finalize handler is dispatched with 'generate' on a state that
\* holds the error message of an earlier failed generation
C14_Witness ==
    /\ GenerateTurn
    /\ call.arg.cv_output = CV_ERROR(state.language)
    /\ call.arg.current_section = "finalize"
    /\ call.arg.is_complete = FALSE

----------------------------------------------------------------------------
\* The other finalize commands

DATA_KEYS == {"personal_info", "education", "work_experience", "skills"}

\* a call of the finalize handler with this keyword of the call's language
FinalizeCall(keyword) ==
    /\ call.fn = "handle_finalize"
    /\ IsKeywordText(TextOf(call.user_input), KEYWORDS[call.language][keyword])

\* the handler call was dispatched by a turn, whose result was saved
DispatchedAndSaved == turn.outcome \in {"accepted", "invalid"} /\ turn.saved

\* C15: 'edit' in finalize sets current_section to personal_info,
\* current_field to the first personal-info field, is_complete to FALSE and
\* cv_output to None, and leaves personal_info, education, work_experience
\* and skills as they were: in the handler's update, and in the state a
\* turn saves.
C15_EditKeepsData ==
    FinalizeCall("edit") =>
        /\ call.ret.current_section = "personal_info"
        /\ call.ret.current_field = PERSONAL_INFO_FIELDS[1]
        /\ call.ret.is_complete = FALSE
        /\ call.ret.cv_output = None
        /\ DOMAIN call.ret \cap DATA_KEYS = {}
        /\ call.arg_after = call.arg
        /\ DispatchedAndSaved =>
               /\ state.current_section = "personal_info"
               /\ state.current_field = PERSONAL_INFO_FIELDS[1]
               /\ state.is_complete = FALSE
               /\ state.cv_output = None
               /\ \A k \in DATA_KEYS : state[k] = call.arg[k]

\* an accepted 'edit' turn on a state with collected data and the output
\* of an earlier generation attempt
C15_Witness ==
    /\ FinalizeCall("edit")
    /\ turn.outcome = "accepted"
    /\ turn.saved
    /\ call.arg.cv_output # None
    /\ call.arg.skills # <<>>
    /\ call.arg.personal_info # EmptyDict

\* the turn just run was dispatched to the finalize handler with the
\* 'review' keyword, and no exception was caught in it
ReviewTurn ==
    /\ turn.section = "finalize"
    /\ FinalizeCall("review")
    /\ turn.outcome \in {"accepted", "invalid"}

\* C16: a finalize turn with the 'review' keyword emits the snapshot of the
\* collected section data, and the state persisted at the end of that turn
\* has current_section = finalize; review is never the current_section of
\* a persisted state.
C16_ReviewNotPersisted ==
    /\ turn.saved => state.current_section # "review"
    /\ (ReviewTurn /\ turn.saved) =>
           /\ state.chatbot_response = REVIEW_TEXT(state.language)
           /\ state.current_section = "finalize"

\* a call of the finalize handler with an input that is none of the three
\* keywords of the call's language
OtherFinalizeCall ==
    /\ call.fn = "handle_finalize"
    /\ \A k \in {"review", "generate", "edit"} : ~FinalizeCall(k)

\* C17: in finalize, any input other than the three keywords yields the
\* usage hint as chatbot_response and keeps current_section = finalize; it
\* changes no collected data, is_complete or cv_output: in the handler's
\* update, and in the state saved by a turn that dispatched the call.
C17_OtherInputHint ==
    OtherFinalizeCall =>
        /\ call.ret.chatbot_response = USAGE_HINT(call.language)
        /\ call.ret.current_section = "finalize"
        /\ DOMAIN call.ret \cap (DATA_KEYS \cup {"is_complete", "cv_output"}) = {}
        /\ call.arg_after = call.arg
        /\ turn.outcome = "accepted" =>
               /\ turn.saved
               /\ state.chatbot_response = USAGE_HINT(state.language)
               /\ state.current_section = "finalize"
               /\ \A k \in DATA_KEYS \cup {"is_complete", "cv_output"} :
                      state[k] = call.arg[k]

\* a turn in finalize with an entry that is no keyword, on a state that
\* holds collected data and the output of an earlier generation attempt
C17_Witness ==
    /\ OtherFinalizeCall
    /\ turn.section = "finalize"
    /\ turn.outcome = "accepted"
    /\ HasText(turn.input)
    /\ call.arg.cv_output # None
    /\ call.arg.skills # <<>>

----------------------------------------------------------------------------
\* Turns without text, exceptions, and the transient input

\* the prompt registered for the question this state is at
CurrentPrompt(cv_state) ==
    IF cv_state.current_section = "personal_info"
    THEN FIELD_PROMPT(cv_state.language, cv_state.current_field)
    ELSE SECTION_PROMPT(cv_state.language, cv_state.current_section)

\* what a turn without text must leave alone
KEPT_KEYS ==
    DATA_KEYS \cup {"current_section", "current_field", "validation_errors",
                    "cv_output", "is_complete", "language"}

\* C18: a turn whose raw input is None, empty or whitespace-only dispatches
\* no handler, emits the prompt of the current question and changes
\* nothing in the state other than clearing user_input and setting
\* chatbot_response: current_section, current_field, the section data,
\* validation_errors, cv_output and is_complete are as before the turn, in
\* every state the session can be in.
C18_BlankTurnKeepsState ==
    (turn.outcome # "new" /\ ~HasText(TextOf(turn.input))) =>
        /\ turn.outcome = "empty"
        /\ call = NoCall
        /\ turn.saved
        /\ state.user_input = NoneInput
        /\ \A k \in KEPT_KEYS : state[k] = turn.processed[k]
        /\ state.chatbot_response = CurrentPrompt(turn.processed)

\* C19: an exception raised while a turn is handled (in the handler, or in
\* constructing or calling the validator) is caught by the controller and
\* becomes the generic response; after the turn current_section and the
\* section data are as before it, and the turn ends with a result.
C19_ExceptionCaught ==
    turn.outcome = "exception" =>
        /\ turn.saved
        /\ state.chatbot_response = GENERIC_ERROR
        /\ state.current_section = turn.section
        /\ CollectedData(state) = turn.data

\* the validator cannot be constructed in a turn whose handler had
\* appended an entry to a list that already holds one
C19_Witness ==
    /\ turn.outcome = "exception"
    /\ turn.section \in {"education", "skills"}
    /\ call.fn \in DOMAIN LIST_HANDLERS
    /\ turn.section \in DOMAIN call.ret
    /\ Len(call.ret[turn.section]) = Len(state[turn.section]) + 1
    /\ state[turn.section] # <<>>

\* C20: user_input is None in the state at the end of every turn, whatever
\* path the turn took (normal update, validation failure, empty input,
\* handler exception, unrecognized section, generation).
C20_InputCleared ==
    (turn.outcome # "new" /\ turn.saved) => state.user_input = NoneInput

----------------------------------------------------------------------------
\* The collected data

\* a str that is not empty and has no whitespace at either end
IsTrimmedText(v) ==
    /\ Len(v) > 0
    /\ v[1] \notin WHITESPACE
    /\ v[Len(v)] \notin WHITESPACE

\* C21: in every state reached by turns of the controller, skills holds
\* only non-empty strings without leading or trailing whitespace, and every
\* education and work_experience entry has a non-empty details string.
C21_EntriesWellFormed ==
    /\ \A i \in 1..Len(state.skills) : IsTrimmedText(state.skills[i])
    /\ \A k \in {"education", "work_experience"} :
           \A i \in 1..Len(state[k]) :
               /\ "details" \in DOMAIN state[k][i]
               /\ Len(state[k][i].details) > 0

\* entries typed with whitespace around them were stored in skills and in
\* education
C21_Witness ==
    /\ turn.input = ENTRY
    /\ turn.section = "skills"
    /\ turn.saved
    /\ Len(state.skills) = MaxList
    /\ Len(state.education) >= 1

\* the collected data of the sections other than the one the turn was
\* dispatched in is as it was before the turn
OtherSectionsKept(cv_state) ==
    \A k \in DATA_KEYS : k # turn.section => cv_state[k] = turn.data[k]

\* C22: a turn dispatched while current_section = S changes the collected
\* data of no section other than S, neither in the state the controller
\* returns nor in the state that is saved.
C22_OtherSectionsUntouched ==
    turn.outcome # "new" => OtherSectionsKept(state) /\ OtherSectionsKept(turn.processed)

\* a saved education turn stored an entry in a session that already holds
\* personal information
C22_Witness ==
    /\ turn.section = "education"
    /\ turn.saved
    /\ state.education # turn.data.education
    /\ state.personal_info # EmptyDict

----------------------------------------------------------------------------
\* Serialisation

RoundTrips(cv_state) ==
    model_validate_json(model_dump_json(cv_state)) = [result |-> cv_state]

\* C23: every state the controller produces, the state after a successful
\* generate included, is read back equal from its own JSON.
C23_RoundTrip == RoundTrips(state) /\ RoundTrips(turn.processed)

----------------------------------------------------------------------------
\* Construction of a state

\* CVState was constructed with a language or a section it does not know
InvalidConstruction ==
    /\ call.fn = "CVState"
    /\ \/ "language" \in DOMAIN call.kwargs /\ call.kwargs.language \notin {"ar", "en"}
       \/ "current_section" \in DOMAIN call.kwargs
          /\ call.kwargs.current_section \notin
                 {"personal_info", "education", "work_experience", "skills",
                  "finalize", "review"}

\* C24: constructing a state with a language other than ar and en, or with
\* a current_section outside the six known sections, fails with an error;
\* no state is returned for it, neither with the value as given nor with a
\* default in its place.
C24_InvalidStateRejected ==
    InvalidConstruction => "raise" \in DOMAIN call /\ "result" \notin DOMAIN call

\* a valid language with an unknown section was refused
C24_Witness ==
    /\ InvalidConstruction
    /\ "language" \in DOMAIN call.kwargs
    /\ call.kwargs.language = "en"
    /\ call.kwargs.current_section = "invalid_section"
    /\ "raise" \in DOMAIN call

----------------------------------------------------------------------------
\* The validation layer

\* the number of calls of the judge, from the first on, that fail in a row
RECURSIVE LeadingFailures(_, _)
LeadingFailures(judges, n) ==
    IF n > Len(judges) \/ judges[n] # "ERROR"
    THEN 0
    ELSE 1 + LeadingFailures(judges, n + 1)

\* validate_input was called and reached the judge
JudgedCall == call.fn = "validate_input" /\ call.judge_calls > 0

\* C25: a failed judge call is retried, up to 3 attempts in total; only
\* after the third failure does the caller get (False, message) with the
\* attempt count, and a success stops the retries.
C25_JudgeRetried ==
    JudgedCall =>
        LET failures == LeadingFailures(call.judges, 1)
        IN  IF failures >= 3
            THEN /\ call.judge_calls = 3
                 /\ ~call.is_valid
                 /\ call.message = "Validation failed after 3 attempts"
            ELSE /\ call.judge_calls = failures + 1
                 /\ call.is_valid = (call.judges[failures + 1] = "VALID")

\* the message of the structural checks of validate_input, None when they
\* pass
StructuralError(section, data) ==
    IF section \notin RULE_SECTIONS
    THEN "Validation rule not found for section: " \o section
    ELSE IF _pre_validate(section, data) # None
    THEN "Pre-validation Error: " \o _pre_validate(section, data)
    ELSE None

StructuralFirst ==
    /\ StructuralError(call.section, call.data) # None =>
           /\ ~call.is_valid
           /\ call.message = StructuralError(call.section, call.data)
           /\ call.judge_calls = 0
    /\ call.judge_calls > 0 => StructuralError(call.section, call.data) = None

\* C26 as stated: when structural validation fails the result is the
\* failure with the structural message and the judge is not invoked;
\* whenever the judge is invoked, structural validation has passed.
C26_StructuralFirst == call.fn = "validate_input" => StructuralFirst

\* C26, amended: the same with strict on, which is the default and what
\* validate_section and batch_validate call it with.
C26_StructuralFirstWhenStrict ==
    (call.fn = "validate_input" /\ call.strict) => StructuralFirst

\* personal information without email and phone was refused in strict mode
\* with a judge that would have answered VALID
C26_Witness ==
    /\ call.fn = "validate_input"
    /\ call.strict
    /\ call.section = "personal_info"
    /\ call.data = [name |-> <<"x">>]
    /\ call.judges[1] = "VALID"
    /\ ~call.is_valid
    /\ call.judge_calls = 0

----------------------------------------------------------------------------
\* DataValidator.batch_validate: one task per section, run concurrently

\* the section names batch_validate is given: one validated field by field,
\* one left to the judge, one without a rule
BatchSections == {"personal_info", "education", "unknown"}

\* the data a section is given
BatchData(section) ==
    IF section = "personal_info"
    THEN {[name |-> <<"x">>],
          [name |-> <<"x">>,
           email |-> <<"a", "@", "b", ".", "c", "o">>,
           phone |-> <<"+", "1", "2", "3", "4", "5", "6", "7", "8">>]}
    ELSE {EmptyDict, [details |-> <<"x">>]}

\* the orders in which a dict can hold some of the sections
KeyOrders ==
    {order \in UNION {[1..n -> BatchSections] : n \in 0..Cardinality(BatchSections)} :
         \A i, j \in DOMAIN order : i # j => order[i] # order[j]}

\* the keys of cv_data that have a rule, in the order of cv_data: the keys
\* of tasks
TaskKeys(keys) == SelectSeq(keys, LAMBDA section : section \in RULE_SECTIONS)

\* Stands in for asyncio.gather: the results come in the order in which
\* the tasks finished.
gather_in_completion_order(tasks, completed, outcome) ==
    [i \in 1..Len(tasks) |-> outcome[completed[i]]]

\* asyncio.gather(*tasks.values(), return_exceptions=True): the results in
\* the order of the tasks, whatever the order they finished in
gather(tasks, completed, outcome) ==
    [i \in 1..Len(tasks) |-> outcome[tasks[i]]]

\* the loop over enumerate(tasks.keys()) that files each result under its
\* section, after the entries of the skipped sections
MapResults(keys, tasks, task_results) ==
    [section \in Range(keys) |->
        IF section \notin RULE_SECTIONS
        THEN [is_valid |-> TRUE,
              message |-> "SKIPPED: No validation rule defined for this section."]
        ELSE LET i == CHOOSE i \in 1..Len(tasks) : tasks[i] = section
                 result == task_results[i]
             IN  IF "raise" \in DOMAIN result
                 THEN [is_valid |-> FALSE,
                       message |-> "ERROR: Validation failed due to exception: "
                                   \o result.raise]
                 ELSE result]

\* batch_validate is called: the tasks are created, none has run yet.
BatchInit ==
    /\ \E keys \in KeyOrders :
       \E cv_data \in {d \in [BatchSections -> UNION {BatchData(s) : s \in BatchSections}] :
                           \A s \in BatchSections :
                               d[s] \in BatchData(s)
                               /\ (s \notin Range(keys) => d[s] = CHOOSE x \in BatchData(s) : TRUE)},
          judges \in {j \in [BatchSections -> JUDGE_OUTCOMES] :
                          \A s \in BatchSections :
                              (s \notin Range(keys) \/ s \notin RULE_SECTIONS) => j[s] = "VALID"} :
           call = [fn |-> "batch_validate", keys |-> keys, cv_data |-> cv_data,
                   judges |-> judges, tasks |-> TaskKeys(keys),
                   status |-> [s \in Range(TaskKeys(keys)) |-> "created"],
                   outcome |-> EmptyDict,
                   completed |-> <<>>, phase |-> "gathering", results |-> EmptyDict]
    /\ state = NoSession
    /\ turn = NoTurn
    /\ ws = NoConnections

\* the task's validate_input(section, section_data, strict=True)
TaskResult(section) ==
    validate_input(section, call.cv_data[section], TRUE, call.judges[section])

\* whether that call reaches the judge
TaskAwaitsJudge(section) ==
    retry(section, call.cv_data[section], TRUE,
          [n \in 1..MAX_ATTEMPTS |-> call.judges[section]], 1, 0).judge_calls > 0

\* A task runs up to its first await: it either finishes on the structural
\* checks or is suspended on the judge.
TaskRun(section) ==
    /\ call.phase = "gathering"
    /\ section \in DOMAIN call.status
    /\ call.status[section] = "created"
    /\ IF TaskAwaitsJudge(section)
       THEN call' = [call EXCEPT !.status[section] = "awaiting"]
       ELSE call' = [call EXCEPT !.status[section] = "done",
                                 !.outcome = (section :> TaskResult(section)) @@ @,
                                 !.completed = Append(@, section)]
    /\ UNCHANGED <<state, turn, ws>>

\* The judge answers, or its call fails, and the task finishes.
TaskResume(section) ==
    /\ call.phase = "gathering"
    /\ section \in DOMAIN call.status
    /\ call.status[section] = "awaiting"
    /\ call' = [call EXCEPT !.status[section] = "done",
                            !.outcome = (section :> TaskResult(section)) @@ @,
                            !.completed = Append(@, section)]
    /\ UNCHANGED <<state, turn, ws>>

\* All tasks are done: gather returns and the results are filed.
BatchReturn ==
    /\ call.phase = "gathering"
    /\ \A section \in DOMAIN call.status : call.status[section] = "done"
    /\ call' = [call EXCEPT
                   !.phase = "returned",
                   !.results = MapResults(call.keys, call.tasks,
                                          gather(call.tasks, call.completed, call.outcome))]
    /\ UNCHANGED <<state, turn, ws>>

BatchNext ==
    \/ \E section \in BatchSections : TaskRun(section) \/ TaskResume(section)
    \/ BatchReturn

BatchSpec == BatchInit /\ [][BatchNext]_vars

----------------
\* C27: batch_validate returns exactly one (is_valid, message) entry for
\* each section key it was given, whatever the order in which the checks
\* finish; each entry is the result of that section's own check, so a check
\* that fails, or whose judge call raises, gives False for its own section
\* and changes no other entry.
C27_OneEntryPerSection ==
    call.phase = "returned" =>
        /\ DOMAIN call.results = Range(call.keys)
        /\ \A section \in Range(call.keys) :
               /\ DOMAIN call.results[section] = {"is_valid", "message"}
               /\ section \in RULE_SECTIONS =>
                      /\ call.results[section] = TaskResult(section)
                      /\ call.judges[section] # "VALID" => ~call.results[section].is_valid

\* two checks finished in the reverse order of their creation, the judge
\* call of one failed, and the other section's entry is valid
C27_Witness ==
    /\ call.phase = "returned"
    /\ call.tasks = <<"education", "personal_info">>
    /\ call.completed = <<"personal_info", "education">>
    /\ call.judges["education"] = "ERROR"
    /\ ~call.results["education"].is_valid
    /\ call.results["personal_info"].is_valid

----------------------------------------------------------------------------
\* Turns and the session store (app/main.py)

\* a turn that ran the graph: a connection's first prompt, or a message
RanGraph == turn.kind \in {"connect", "message"}

\* the states the graph can return for the message of this turn on the
\* state that was stored before it
AppliedToStored ==
    {main_GraphInvoke(Merge(turn.before, [user_input |-> strip(turn.input),
                                          chatbot_response |-> None]), render) :
         render \in {"ok", "raise"}}

\* the states the graph can return for a connection's first prompt on the
\* state that was stored before it
PromptedFromStored ==
    {main_GraphInvoke(Merge(turn.before, [user_input |-> NoneInput,
                                          chatbot_response |-> None]), "ok")}

\* C28: the turns of a session are applied one at a time; the state
\* stored after a turn is the result of applying that turn's input to the
\* state stored by the turn before it, so no accepted input is lost or
\* applied to a stale state, with one connection or two on the session id.
C28_TurnsAppliedInOrder ==
    /\ turn.kind = "message" => state \in AppliedToStored
    /\ (turn.kind = "connect" /\ turn.before # NoSession) => state \in PromptedFromStored

C30_SaveFailureRaised ==
    (RanGraph /\ turn.save = "down") => turn.raised # None

----------------------------------------------------------------------------
\* The session store (app/services/redis_store.py)

\* C31: loading a session id for which the store holds nothing returns a
\* CVState to the caller and raises no error.
C31_MissingSessionLoads ==
    (call.fn = "load_state" /\ call.store = "up" /\ call.stored = Nil) =>
        "result" \in DOMAIN call /\ "raise" \notin DOMAIN call

----------------------------------------------------------------------------
\* The outbound message

IsSet(v) == v \notin {None, ""}

\* the message the priority rule gives for the state process_input left:
\* its explicit response, else cv_output of a complete state, else the
\* prompt of the section and field the turn ends in (in review: the snapshot
\* followed by the finalize prompt)
ExpectedMessage(processed, after) ==
    IF IsSet(processed.chatbot_response)
    THEN processed.chatbot_response
    ELSE IF processed.is_complete /\ IsSet(processed.cv_output)
    THEN processed.cv_output
    ELSE IF processed.current_section = "review"
    THEN REVIEW_TEXT(processed.language)
    ELSE CurrentPrompt(after)

\* C32: the outbound message of a turn is the explicit chatbot_response
\* set during input processing; otherwise cv_output if the state is complete
\* and has one; otherwise the prompt registered for the current section (and
\* field) in the session's language.  Every turn ends with a non-empty
\* outbound message.
C32_OutboundMessage ==
    turn.outcome # "new" =>
        /\ turn.saved
        /\ IsSet(state.chatbot_response)
        /\ state.chatbot_response = ExpectedMessage(turn.processed, state)

----------------------------------------------------------------------------
\* A judge that fails

\* the turn asked for a transition and the judge call failed: the failure
\* message is what validation returned for the turn's section
JudgeFailedTurn ==
    /\ turn.outcome = "invalid"
    /\ turn.section \in DOMAIN turn.processed.validation_errors
    /\ turn.processed.validation_errors[turn.section] = JUDGE_ERROR

\* C33: when the judge call fails during a section transition, the outcome
\* is a failed validation and not a pass: the turn does not advance
\* current_section and the failure is recorded in validation_errors for the
\* section.
C33_JudgeFailureRejects ==
    JudgeFailedTurn =>
        /\ turn.processed.current_section = turn.section
        /\ turn.saved => /\ state.current_section = turn.section
                         /\ turn.section \in DOMAIN state.validation_errors
----------------------------------------------------------------------------
\* One turn in steps.  process_input awaits the validator, which awaits the
\* chat completion: between the two the turn is suspended, and it goes on
\* when the call returns an answer or raises.  The repository sets no
\* deadline on the call; that the call returns at all is the HTTP client's
\* doing, and is the fairness condition of TurnSpec.

NoPending == <<>>

TurnInit ==
    /\ \E language \in LANGUAGES, current_field \in {None, PERSONAL_INFO_FIELDS[1]} :
           state = Merge(CVState(language), [current_field |-> current_field])
    /\ turn = [phase |-> "idle", outcome |-> "new", section |-> "personal_info",
               input |-> NoneInput, saved |-> FALSE, pending |-> NoPending]
    /\ call = NoCall
    /\ ws = NoConnections

\* the run of this state reaches the chat completion: a handler is
\* dispatched, the validator is constructed, and the handler's update leaves
\* a section other than personal_info
AwaitsJudge(current_state, env) ==
    /\ current_state.user_input # NoneInput
    /\ strip(current_state.user_input) # <<>>
    /\ current_state.current_section \in HANDLER_SECTIONS
    /\ env.validator = "ok"
    /\ current_state.current_section # "personal_info"
    /\ Get(Dispatch(current_state, env.render).ret, "current_section",
           current_state.current_section) # current_state.current_section

\* the input of the next turn: none on first contact
TurnInputs ==
    IF turn.phase = "idle" THEN {NoneInput}
    ELSE MessageInputs(state.current_section, state.language)

\* the run ends: its result is saved and sent, or it raised
TurnEnds(current_state, r) ==
    /\ state' = IF "result" \in DOMAIN r THEN r.result ELSE state
    /\ turn' = [phase |-> IF "result" \in DOMAIN r THEN "responded" ELSE "raised",
                outcome |-> r.outcome, section |-> state.current_section,
                input |-> current_state.user_input, saved |-> "result" \in DOMAIN r,
                pending |-> NoPending]
    /\ call' = r.call
    /\ UNCHANGED ws

\* a turn that asks the judge nothing runs to its end
TurnRuns ==
    /\ turn.phase \in {"idle", "responded"}
    /\ ~state.is_complete
    /\ \E input \in TurnInputs : \E env \in Envs(Received(input)) :
           /\ ~AwaitsJudge(Received(input), env)
           /\ \E r \in {GraphInvoke(Received(input), env)} :
                  /\ "result" \in DOMAIN r => WithinBounds(r.result)
                  /\ TurnEnds(Received(input), r)

\* a turn that leaves a list section or finalize is suspended on the call;
\* ends is how the run goes on from there, for each way the call may end
TurnAsksJudge ==
    /\ turn.phase = "responded"
    /\ ~state.is_complete
    /\ \E input \in TurnInputs : \E env \in Envs(Received(input)) :
           /\ AwaitsJudge(Received(input), env)
           /\ env.judge = "VALID"
           /\ turn' = [phase |-> "awaiting", outcome |-> "pending",
                       section |-> state.current_section, input |-> input,
                       saved |-> FALSE,
                       pending |-> <<[current_state |-> Received(input),
                                     ends |-> [judge \in JUDGE_OUTCOMES |->
                                                  GraphInvoke(Received(input),
                                                              [env EXCEPT !.judge = judge])]]>>]
           /\ UNCHANGED <<state, call, ws>>

\* the call returns, with an answer or an exception, and the turn goes on
\* to the end that outcome gives it
TurnJudgeReturns ==
    /\ turn.phase = "awaiting"
    /\ \E judge \in JUDGE_OUTCOMES :
           TurnEnds(turn.pending[1].current_state, turn.pending[1].ends[judge])

TurnNext == TurnRuns \/ TurnAsksJudge \/ TurnJudgeReturns

TurnSpec == TurnInit /\ [][TurnNext]_vars /\ WF_vars(TurnJudgeReturns)

----------------
C34_FailedJudgeDegrades ==
    [][(turn.phase = "awaiting" /\ turn'.phase = "responded"
            /\ turn'.outcome = "invalid") => turn'.saved]_vars

\* the turn that ends without a response
C34_TurnRaised == turn.phase = "raised" /\ turn.input \in {KEYWORDS[l].generate : l \in LANGUAGES}

\* a turn suspended when leaving a list section is answered, whatever the call
\* does
C34_ListTurnResponds ==
    (turn.phase = "awaiting" /\ turn.section # "finalize") ~> (turn.phase = "responded")
----------------
\* C35: structural validation of a list section's list that is not empty
\* accepts it exactly when every entry carries at least one non-empty
\* descriptive attribute (skills: every item is a non-empty string); a list
\* of {details: text} entries, as the list handlers store them, passes.
Descriptive(item) == \E key \in DOMAIN item : Truthy(item, key)

EveryEntryDescribed(section, data) ==
    \A i \in 1..Len(data) :
        IF section = "skills" THEN strip(data[i]) # <<>> ELSE Descriptive(data[i])

PreValidated == call.fn = "pre_validate_section_data" /\ Len(call.data) > 0

C35_StructuralListCheck ==
    PreValidated => (call.ret = None <=> EveryEntryDescribed(call.section, call.data))

\* the parts of C35 the code has: a list with an entry without any non-empty
\* attribute, or with an empty skill, is rejected
C35_UndescribedRejected ==
    (PreValidated /\ ~EveryEntryDescribed(call.section, call.data)) => call.ret # None

\* the list a list handler stores is rejected
C35_HandlerListRejected ==
    /\ PreValidated
    /\ call.section = "education"
    /\ call.data = <<[details |-> <<"x">>]>>
    /\ call.ret # None
----------------
\* C36: handle_personal_info called with no current_field returns an update
\* that sets current_field to the first personal-info field and
\* current_section to personal_info and holds no personal_info value: the
\* input is not consumed, and a turn that accepts the update stores
\* personal_info as it was.
Unprompted == call.fn = "handle_personal_info" /\ call.current_field = None

C36_UnpromptedResets ==
    Unprompted =>
        /\ call.ret = [current_field |-> PERSONAL_INFO_FIELDS[1],
                      current_section |-> "personal_info"]
        /\ call.arg_after = call.arg
        /\ (turn.outcome = "accepted" /\ turn.saved) =>
               /\ state.personal_info = turn.data.personal_info
               /\ state.current_field = PERSONAL_INFO_FIELDS[1]
               /\ state.current_section = "personal_info"

\* a turn with text in a session whose state has no current_field, and a
\* call of the handler on its own with text and no current_field
C36_UnpromptedTurn ==
    /\ Unprompted
    /\ call.user_input = ENTRY
    /\ turn.outcome = "accepted"
    /\ turn.saved
----------------
\* C37: a turn whose current_section has no registered handler responds with
\* the generic error message and resets the session to personal_info,
\* leaving current_field naming a personal-info field and the collected
\* section data unchanged.
C37_NoHandlerResets ==
    turn.outcome = "no_handler" =>
        /\ turn.saved
        /\ state.chatbot_response = GENERIC_ERROR
        /\ state.current_section = "personal_info"
        /\ state.current_field \in Range(PERSONAL_INFO_FIELDS)
        /\ CollectedData(state) = turn.data

\* the parts of C37 the code has: everything but the current_field
C37_NoHandlerResetsSection ==
    turn.outcome = "no_handler" =>
        /\ turn.saved
        /\ state.chatbot_response = GENERIC_ERROR
        /\ state.current_section = "personal_info"
        /\ state.current_field = None
        /\ CollectedData(state) = turn.data
----------------
\* C38: validation_errors is kept per section.  A turn in section S that
\* records a failure, or that passes validation or requests no transition,
\* leaves the entries of every other section as they were, and after a turn
\* in S that passes (or requests no transition) there is no entry for S.
OtherEntries(errors, section) ==
    [k \in DOMAIN errors \ {section} |-> errors[k]]

\* this step is a turn in which a failure was recorded and saved
FailureRecorded == turn' # turn /\ turn'.outcome = "invalid" /\ turn'.saved

\* this step is a turn that passed validation or requested no transition
TurnPassed == turn' # turn /\ turn'.outcome = "accepted" /\ turn'.saved

C38_ErrorsPerSection ==
    [][/\ (FailureRecorded \/ TurnPassed) =>
              OtherEntries(state'.validation_errors, turn'.section)
                  = OtherEntries(state.validation_errors, turn'.section)
       /\ TurnPassed => turn'.section \notin DOMAIN state'.validation_errors]_vars

\* the half of C38 the code has: a turn that passes removes the entry of its
\* section and no other
C38_PassClearsOwnEntry ==
    [][TurnPassed =>
           /\ OtherEntries(state'.validation_errors, turn'.section)
                  = OtherEntries(state.validation_errors, turn'.section)
           /\ turn'.section \notin DOMAIN state'.validation_errors]_vars

\* what a recorded failure leaves: the entry of its section alone
C38_FailureReplacesAll ==
    [][FailureRecorded => DOMAIN state'.validation_errors = {turn'.section}]_vars

\* a failure was recorded in a session that held the entry of another section
C38_OtherEntryLost ==
    /\ turn.outcome = "invalid"
    /\ turn.saved
    /\ turn.section = "education"
    /\ turn.section \in DOMAIN state.validation_errors
    /\ "personal_info" \notin DOMAIN state.validation_errors
----------------------------------------------------------------------------
\* The session of a user who answers every prompt with a valid value: a
\* value of the right format for each personal-info field, one or more
\* entries and then the done keyword in each list section, then the generate
\* keyword; the validator is constructed, the judge answers VALID and the
\* renderer succeeds.  The user keeps answering and every run ends.

VALID_VALUES ==
    [name |-> {<<"A", "l", " ", "B", "o">>, <<"C", "y", " ", "D", "e">>},
     email |-> {<<"a", "@", "b", ".", "c", "o">>, <<"c", "@", "d", ".", "o", "r", "g">>},
     phone |-> {<<"+", "1", "2", "3", "4", "5", "6", "7", "8">>,
                <<"1", "2", "3", "-", "4", "5", "6", "7", "8">>},
     address |-> {<<"A">>, <<"B">>}]

HappyEnv == [validator |-> "ok", judge |-> "VALID", render |-> "ok"]

HappyInit ==
    /\ \E language \in LANGUAGES :
           state = Merge(CVState(language), [current_field |-> PERSONAL_INFO_FIELDS[1]])
    /\ turn = [phase |-> "idle", outcome |-> "new", section |-> "personal_info",
               input |-> NoneInput, saved |-> FALSE, pending |-> NoPending]
    /\ call = NoCall
    /\ ws = NoConnections

\* what this user sends next
HappyInputs ==
    IF turn.phase = "idle" THEN {NoneInput}
    ELSE CASE state.current_section = "personal_info" ->
                  IF state.current_field \in DOMAIN VALID_VALUES
                  THEN VALID_VALUES[state.current_field] ELSE {}
           [] state.current_section \in {"education", "work_experience", "skills"} ->
                  (IF Len(state[state.current_section]) < MaxList
                   THEN {ENTRY, OTHER_ENTRY} ELSE {})
                  \cup (IF Len(state[state.current_section]) >= 1
                        THEN {KEYWORDS[state.language].done} ELSE {})
           [] state.current_section = "finalize" -> {KEYWORDS[state.language].generate}
           [] OTHER -> {}

HappyTurn ==
    /\ turn.phase \in {"idle", "responded"}
    /\ ~state.is_complete
    /\ \E input \in HappyInputs : \E r \in {GraphInvoke(Received(input), HappyEnv)} :
           TurnEnds(Received(input), r)

HappySpec == HappyInit /\ [][HappyTurn]_vars /\ WF_vars(HappyTurn)

----------------
\* C39: the session of a user who answers every prompt with a valid value,
\* with a judge that answers VALID and a renderer that succeeds, reaches a
\* state with is_complete = true, and no turn on the way is rejected.
C39_Progress == <>(state.is_complete) /\ [](turn.outcome # "invalid")

\* no state this session stores is complete
C39_NeverComplete == [](~state.is_complete)

\* the only turn rejected is the one that enters the last personal-info field
C39_OnlyLastFieldRejected ==
    turn.outcome = "invalid" =>
        /\ turn.section = "personal_info"
        /\ turn.input \in VALID_VALUES[PERSONAL_INFO_FIELDS[Len(PERSONAL_INFO_FIELDS)]]

\* the run of the generate turn raised
C39_GenerateRaised ==
    /\ turn.phase = "raised"
    /\ turn.section = "finalize"
    /\ turn.input = KEYWORDS[state.language].generate

\* the values sent have the format the rules ask for
C39_ValuesValid ==
    \A field \in {"name", "email", "phone"} :
        \A value \in VALID_VALUES[field] : _validate_format(field, value)

====
